---- MODULE Spec2Model ----
(***************************************************************************)
(* Step Masters: the challenge verification engine (utils: sensor cache,   *)
(* challenge catalog, detector state, the four detectors) and the          *)
(* ChallengeScreen component that drives it (React state, the 100 ms       *)
(* completion poll, the one-second countdown, the 2 s next-challenge       *)
(* timeout and the user's buttons).                                        *)
(*                                                                         *)
(* Number representation.  The code computes with IEEE doubles; the model  *)
(* computes with integers in fixed units:                                  *)
(*   - sensor components, magnitudes and magnitude/speed/angle thresholds  *)
(*     are in TENTHS of the sensor's unit (1.2 is 12);                     *)
(*   - the sensitivity multiplier is in tenths as well (0.7 is 7);         *)
(*   - an adjusted threshold is the exact rational [n, d] (n/d tenths),    *)
(*     compared by cross-multiplication, so 1.2/0.7 is not rounded;        *)
(*   - rotation is in MILLIDEGREES; headings and tolerances in degrees;    *)
(*   - wall-clock time is in milliseconds;                                 *)
(*   - a performance is the exact rational [num, den], den > 0.            *)
(***************************************************************************)
EXTENDS Integers, Sequences, FiniteSets, TLC

VARIABLES
  \* ---- utils module state (src/unnamed/part_000) ----
  availableSensors,          \* availability flags, set by initSensors
  subscribed,                \* which of the three subscriptions are non-null
  listeners,                 \* native listeners registered per family
  currentAccelerometer, currentGyroscope, currentMagnetometer,
  lastAccelMagnitude, stepCount, rotationProgress, tiltStates,
  directionMatched, lastDirectionMatchTime, directionMatchDuration,
  \* ---- ChallengeScreen state (src/usando-sensores/App.js) ----
  challenge,                 \* useState(null): the challenge descriptor
  challengeId,               \* identity of the object held in `challenge`
  isPaused, timeLeft, score, sessionChallenges,
  sensorData,                \* useState: the snapshot of the last poll tick
  intervals,                 \* live countdown intervals (setInterval, 1000 ms)
  timeouts,                  \* pending next-challenge timeouts (setTimeout, 2000 ms)
  poll,                      \* the completion-poll interval of the current effect
  starting,                  \* startChallenge calls suspended at their await
  focused,                   \* the screen has navigation focus
  mounted,                   \* the component is mounted
  dialog,                    \* the end-session confirmation, with its closure
  saving,                    \* endSession calls suspended at saveChallenge
  \* ---- environment and observations ----
  device,                    \* the hardware's real sensor availability
  difficulty,                \* SettingsScreen's useState('medium'): the level shown
  settings,                  \* the difficulty settings persisted in AsyncStorage
  history,                   \* the session records persisted in AsyncStorage
  alert,                     \* the message of the last Alert.alert shown ("" if none)
  now,                       \* Date.now(), ms
  sensitivityMultiplier,     \* third argument of verifyChallengeCompletion
  result,                    \* the VerificationResult of the last verification
  notified,                  \* sounds requested (playSound) by the last step
  tiltDetected,              \* verifyTiltChallenge's classification in the last tick
  lastOp,                    \* name of the last operation
  lastVerified,              \* identity of the challenge last passed to verification
  firedFor,                  \* identity of the challenge whose timer fired last
  presses                    \* button presses and navigation events so far

utilsVars == <<availableSensors, subscribed, listeners,
               currentAccelerometer, currentGyroscope, currentMagnetometer>>
detVars == <<lastAccelMagnitude, stepCount, rotationProgress, tiltStates,
             directionMatched, lastDirectionMatchTime, directionMatchDuration>>
screenVars == <<challenge, challengeId, isPaused, timeLeft, score, sessionChallenges,
                sensorData, intervals, timeouts, poll, starting, focused, mounted,
                dialog, saving>>
envVars == <<device, difficulty, settings, history, alert, now, sensitivityMultiplier,
             result, notified, tiltDetected, lastOp, lastVerified, firedFor, presses>>
vars == <<utilsVars, detVars, screenVars, envVars>>

----------------------------------------------------------------------------
\* Bounds of the model.

\* Date.now() advances in steps of ClockStep ms, at most MaxClockSteps times.
MaxClockSteps == 8
\* Largest number of clock steps between two consecutive verifications.
MaxDt == 2

----------------------------------------------------------------------------
\* Program constants.

ClockStep == 500
RUN == "RUN"
ROTATE == "ROTATE"
TILT == "TILT"
DIRECTION == "DIRECTION"
BASIC == "BASIC"
CHALLENGE_TYPES == {RUN, ROTATE, TILT, DIRECTION}

\* The catalog.  `hint` is display text only and is left out; a TILT template
\* that sets no `duration` has duration 0 (undefined and 0 are both falsy in
\* every test the code makes of it).  intensity is in tenths.
CHALLENGES ==
  [t \in CHALLENGE_TYPES |->
    CASE t = RUN ->
      << [instruction |-> "Run in place for 3 seconds", count |-> 3, intensity |-> 15],
         [instruction |-> "Take 5 steps forward", count |-> 5, intensity |-> 12],
         [instruction |-> "Jump 3 times", count |-> 3, intensity |-> 20],
         [instruction |-> "March in place for 5 seconds", count |-> 5, intensity |-> 13] >>
      [] t = ROTATE ->
      << [instruction |-> "Rotate device 360 clockwise", degrees |-> 360, direction |-> 1],
         [instruction |-> "Rotate device 360 counter-clockwise", degrees |-> 360, direction |-> -1],
         [instruction |-> "Rotate device 180 and back", degrees |-> 180, direction |-> 0],
         [instruction |-> "Spin around with your device", degrees |-> 360, direction |-> 0] >>
      [] t = TILT ->
      << [instruction |-> "Tilt device left then right",
          directions |-> <<"left", "right">>, duration |-> 0],
         [instruction |-> "Tilt device forward then backward",
          directions |-> <<"forward", "backward">>, duration |-> 0],
         [instruction |-> "Tilt device in a circle",
          directions |-> <<"left", "forward", "right", "backward">>, duration |-> 0],
         [instruction |-> "Hold device tilted left for 3 seconds",
          directions |-> <<"left">>, duration |-> 3] >>
      [] t = DIRECTION ->
      << [instruction |-> "Face North", direction |-> "N", tolerance |-> 20],
         [instruction |-> "Face East", direction |-> "E", tolerance |-> 20],
         [instruction |-> "Face South", direction |-> "S", tolerance |-> 20],
         [instruction |-> "Face West", direction |-> "W", tolerance |-> 20],
         [instruction |-> "Rotate slowly to face South-East", direction |-> "SE", tolerance |-> 20] >>]

\* Base thresholds, in tenths (DIRECTION_TOLERANCE in degrees).
THRESHOLDS ==
  [STEP_MAGNITUDE |-> 12, ROTATION_SPEED |-> 5, TILT_ANGLE |-> 5, DIRECTION_TOLERANCE |-> 20]

\* The fallback's shake threshold 2.5, in tenths.
SHAKE_MAGNITUDE == 25
\* The direction detector's required hold, in seconds.
HOLD_SECONDS == 2
\* (180 / Math.PI) / 10 degrees per rad/s and tick, i.e. 0.5729578 degrees per
\* tenth of a rad/s: 573 millidegrees.
MILLIDEG_PER_TENTH == 573

----------------------------------------------------------------------------
\* Arithmetic helpers.

Abs(a) == IF a < 0 THEN -a ELSE a

\* Math.sqrt on the sum of squares of integer components: the integer root.
\* The sample sets below hold only vectors whose magnitude is exact.
Sqrt(n) == CHOOSE r \in 0..n : r * r <= n /\ (r + 1) * (r + 1) > n

\* Math.sqrt(x^2 + y^2 + z^2)
Magnitude(v) == Sqrt(v.x * v.x + v.y * v.y + v.z * v.z)

\* value > n/d and value < -(n/d), for d > 0.
Gt(value, q) == value * q.d > q.n
LtNeg(value, q) == value * q.d < -(q.n)
Le(value, q) == value * q.d <= q.n

\* A performance that is not capped.
Uncapped(p) == p

\* A performance (rational) and Math.min(1.0, p).
Perf(num, den) == [num |-> num, den |-> den]
Min1(p) == IF p.num > p.den THEN Perf(1, 1) ELSE p
\* Math.round(performance * 100), for a performance >= 0.
Points(p) == (200 * p.num + p.den) \div (2 * p.den)

----------------------------------------------------------------------------
\* Detector state.

DetectorState ==
  [lastAccelMagnitude |-> lastAccelMagnitude, stepCount |-> stepCount,
   rotationProgress |-> rotationProgress, tiltStates |-> tiltStates,
   directionMatched |-> directionMatched,
   lastDirectionMatchTime |-> lastDirectionMatchTime,
   directionMatchDuration |-> directionMatchDuration]

\* A resetChallengeTracking that forgets the step counter.
ResetTrackingKeepsSteps(D) ==
  [lastAccelMagnitude |-> 0, stepCount |-> D.stepCount, rotationProgress |-> 0,
   tiltStates |-> <<>>, directionMatched |-> FALSE,
   lastDirectionMatchTime |-> 0, directionMatchDuration |-> 0]

\* A resetChallengeTracking that leaves the hold timer running.
ResetTrackingKeepsTimer(D) ==
  [lastAccelMagnitude |-> 0, stepCount |-> 0, rotationProgress |-> 0,
   tiltStates |-> <<>>, directionMatched |-> FALSE,
   lastDirectionMatchTime |-> D.lastDirectionMatchTime,
   directionMatchDuration |-> 0]

\* resetChallengeTracking(): the state it leaves.
ResetTracking(D) ==
  [lastAccelMagnitude |-> 0, stepCount |-> 0, rotationProgress |-> 0,
   tiltStates |-> <<>>, directionMatched |-> FALSE,
   lastDirectionMatchTime |-> 0, directionMatchDuration |-> 0]

\* What a detector hands back: the detector state it leaves, the
\* VerificationResult it returns, the sounds it asked for, and (tilt only) the
\* classification it made.
Outcome(D, completed, performance, sounds, tilt) ==
  [d |-> D, result |-> [completed |-> completed, performance |-> performance],
   sounds |-> sounds, tilt |-> tilt]

\* An adapter that scales every threshold the same way.
AdjustThresholdsAllDivided(m) ==
  [STEP_MAGNITUDE |-> [n |-> THRESHOLDS.STEP_MAGNITUDE * 10, d |-> m],
   ROTATION_SPEED |-> [n |-> THRESHOLDS.ROTATION_SPEED * 10, d |-> m],
   TILT_ANGLE |-> [n |-> THRESHOLDS.TILT_ANGLE * 10, d |-> m],
   DIRECTION_TOLERANCE |-> [n |-> THRESHOLDS.DIRECTION_TOLERANCE * 10, d |-> m]]

\* adjustedThresholds (verifyChallengeCompletion), m in tenths.
AdjustThresholds(m) ==
  [STEP_MAGNITUDE |-> [n |-> THRESHOLDS.STEP_MAGNITUDE * 10, d |-> m],
   ROTATION_SPEED |-> [n |-> THRESHOLDS.ROTATION_SPEED * 10, d |-> m],
   TILT_ANGLE |-> [n |-> THRESHOLDS.TILT_ANGLE * 10, d |-> m],
   DIRECTION_TOLERANCE |-> [n |-> THRESHOLDS.DIRECTION_TOLERANCE * m, d |-> 10]]

----------------------------------------------------------------------------
\* verifyRunChallenge

\* An isStep that forgets the previous magnitude.
IsStepNoEdge(magnitude, last, thresholds) ==
  Gt(magnitude, thresholds.STEP_MAGNITUDE)

\* isStep: a rising edge through the step threshold.
IsStep(magnitude, last, thresholds) ==
  /\ Gt(magnitude, thresholds.STEP_MAGNITUDE)
  /\ Le(last, thresholds.STEP_MAGNITUDE)

\* A completion test that wants one step more.
RunReachedStrict(ch, steps) == ch.count # 0 /\ steps > ch.count

\* "challenge.count && stepCount >= challenge.count"
RunReached(ch, steps) == ch.count # 0 /\ steps >= ch.count

verifyRunChallenge(D, ch, accelerometer, thresholds) ==
  LET magnitude == Magnitude(accelerometer)
      isStep == IsStep(magnitude, D.lastAccelMagnitude, thresholds)
      steps == IF isStep THEN D.stepCount + 1 ELSE D.stepCount
      sounds == IF isStep THEN <<"stepDetected">> ELSE <<>>
      D1 == [D EXCEPT !.lastAccelMagnitude = magnitude, !.stepCount = steps]
  IN IF RunReached(ch, steps)
       THEN Outcome([D1 EXCEPT !.stepCount = 0], TRUE,
                    Min1(Perf(steps, ch.count)), sounds, "")
       ELSE Outcome(D1, FALSE,
                    IF ch.count # 0 THEN Perf(steps, ch.count) ELSE Perf(0, 1),
                    sounds, "")

----------------------------------------------------------------------------
\* verifyRotateChallenge

\* rotationAxis: +z, -z or |z| by challenge.direction.
RotationAxis(ch, gyroscope) ==
  IF ch.direction = 1 THEN gyroscope.z
  ELSE IF ch.direction = -1 THEN -gyroscope.z
  ELSE Abs(gyroscope.z)

\* "Math.abs(rotationAxis) > thresholds.ROTATION_SPEED"
Rotating(rotationAxis, thresholds) == Gt(Abs(rotationAxis), thresholds.ROTATION_SPEED)

\* "Math.abs(rotationAxis) * (180 / Math.PI) / 10", in millidegrees.
RotationStep(rotationAxis) == Abs(rotationAxis) * MILLIDEG_PER_TENTH

\* A completion test that wants twice the rotation.
RotateReachedLate(ch, progress) == ch.degrees # 0 /\ progress >= 2 * ch.degrees * 1000

\* "challenge.degrees && rotationProgress >= challenge.degrees"
RotateReached(ch, progress) == ch.degrees # 0 /\ progress >= ch.degrees * 1000

verifyRotateChallenge(D, ch, gyroscope, thresholds) ==
  LET rotationAxis == RotationAxis(ch, gyroscope)
      progress == IF Rotating(rotationAxis, thresholds)
                    THEN D.rotationProgress + RotationStep(rotationAxis)
                    ELSE D.rotationProgress
  IN IF RotateReached(ch, progress)
       THEN Outcome([D EXCEPT !.rotationProgress = 0], TRUE,
                    Min1(Perf(ch.degrees * 1000, progress)), <<>>, "")
       ELSE Outcome([D EXCEPT !.rotationProgress = progress], FALSE,
                    IF ch.degrees # 0 THEN Perf(progress, ch.degrees * 1000) ELSE Perf(0, 1),
                    <<>>, "")

----------------------------------------------------------------------------
\* verifyTiltChallenge

\* A classification that looks at y before x.
TiltDetectedYFirst(gyroscope, thresholds) ==
  IF Gt(gyroscope.y, thresholds.TILT_ANGLE) THEN "right"
  ELSE IF LtNeg(gyroscope.y, thresholds.TILT_ANGLE) THEN "left"
  ELSE IF Gt(gyroscope.x, thresholds.TILT_ANGLE) THEN "forward"
  ELSE IF LtNeg(gyroscope.x, thresholds.TILT_ANGLE) THEN "backward"
  ELSE ""

\* tiltDetected: the classification of the gyroscope sample ('' is none).
TiltDetected(gyroscope, thresholds) ==
  IF Gt(gyroscope.x, thresholds.TILT_ANGLE) THEN "forward"
  ELSE IF LtNeg(gyroscope.x, thresholds.TILT_ANGLE) THEN "backward"
  ELSE IF Gt(gyroscope.y, thresholds.TILT_ANGLE) THEN "right"
  ELSE IF LtNeg(gyroscope.y, thresholds.TILT_ANGLE) THEN "left"
  ELSE ""

\* A recording step without the comparison against the last entry.
IsNewTiltNoDebounce(states, tilt) == tilt # ""

\* "tiltDetected && (tiltStates.length === 0 || last !== tiltDetected)"
IsNewTilt(states, tilt) ==
  tilt # "" /\ (Len(states) = 0 \/ states[Len(states)] # tilt)

\* The for loop of the sequence check: the value of directionIndex when the
\* loop ends, started at tiltStates[i] (1-based) with directionIndex matched.
RECURSIVE DirectionIndex(_, _, _, _)
DirectionIndex(states, directions, i, matched) ==
  IF i > Len(states) \/ matched >= Len(directions) THEN matched
  ELSE DirectionIndex(states, directions, i + 1,
                      IF states[i] = directions[matched + 1] THEN matched + 1 ELSE matched)

\* A sequence check that ignores the order of the transitions.
AllDirectionsMatchedAnyOrder(states, directions) ==
  \A k \in 1..Len(directions) :
    \E i \in 1..Len(states) : states[i] = directions[k]

\* allDirectionsMatched
AllDirectionsMatched(states, directions) ==
  DirectionIndex(states, directions, 1, 0) = Len(directions)

\* The part of verifyTiltChallenge after the hold block: the sequence check
\* and the partial progress.  ms is directionMatchDuration in milliseconds.
TiltSequence(D, ch, tilt, sounds) ==
  IF AllDirectionsMatched(D.tiltStates, ch.directions)
    THEN Outcome([D EXCEPT !.tiltStates = <<>>], TRUE, Perf(1, 1), sounds, tilt)
    ELSE Outcome(D, FALSE,
                 Min1(Perf(Len(D.tiltStates), Len(ch.directions))), sounds, tilt)

verifyTiltChallenge(D, ch, gyroscope, thresholds, t) ==
  LET tilt == TiltDetected(gyroscope, thresholds)
      isNew == IsNewTilt(D.tiltStates, tilt)
      sounds == IF isNew THEN <<"tiltDetected">> ELSE <<>>
      D1 == IF isNew THEN [D EXCEPT !.tiltStates = Append(D.tiltStates, tilt)] ELSE D
  IN IF ch.duration # 0 /\ tilt = ch.directions[1]
       THEN IF D1.lastDirectionMatchTime = 0
              THEN TiltSequence([D1 EXCEPT !.lastDirectionMatchTime = t], ch, tilt, sounds)
              ELSE LET held == t - D1.lastDirectionMatchTime
                   IN IF held >= ch.duration * 1000
                        THEN Outcome([D1 EXCEPT !.tiltStates = <<>>,
                                                !.lastDirectionMatchTime = 0,
                                                !.directionMatchDuration = 0],
                                     TRUE, Perf(1, 1), sounds, tilt)
                        ELSE TiltSequence([D1 EXCEPT !.directionMatchDuration = held],
                                          ch, tilt, sounds)
       ELSE TiltSequence([D1 EXCEPT !.lastDirectionMatchTime = 0], ch, tilt, sounds)

----------------------------------------------------------------------------
\* verifyDirectionChallenge

\* Math.atan2(y, x) * (180 / Math.PI), in whole degrees, on the magnetometer
\* readings the model uses.
Atan2Table ==
  { <<0, 0, 0>>, <<30, 0, 0>>, <<30, 30, 45>>, <<0, 30, 90>>, <<-30, 30, 135>>,
    <<-30, 0, 180>>, <<-30, -30, -135>>, <<0, -30, -90>>, <<30, -30, -45>>,
    <<567, 100, 10>>, <<567, -100, -10>>, <<1000, 404, 22>>,
    <<1000, 363, 20>> }

Atan2Deg(y, x) == (CHOOSE e \in Atan2Table : e[1] = x /\ e[2] = y)[3]

getHeadingFromDirection(direction) ==
  CASE direction = "N" -> 0
    [] direction = "NE" -> 45
    [] direction = "E" -> 90
    [] direction = "SE" -> 135
    [] direction = "S" -> 180
    [] direction = "SW" -> 225
    [] direction = "W" -> 270
    [] direction = "NW" -> 315
    [] OTHER -> 0

\* A difference that is not folded onto the shorter arc.
HeadingDiffNoWrap(ch, magnetometer) ==
  LET heading == Atan2Deg(magnetometer.y, magnetometer.x)
      normalizedHeading == IF heading < 0 THEN heading + 360 ELSE heading
  IN Abs(normalizedHeading - getHeadingFromDirection(ch.direction))

\* diff: the shorter arc between the normalized heading and the target.
HeadingDiff(ch, magnetometer) ==
  LET heading == Atan2Deg(magnetometer.y, magnetometer.x)
      normalizedHeading == IF heading < 0 THEN heading + 360 ELSE heading
      raw == Abs(normalizedHeading - getHeadingFromDirection(ch.direction))
  IN IF raw > 180 THEN 360 - raw ELSE raw

\* "challenge.tolerance || thresholds.DIRECTION_TOLERANCE", as a rational.
Tolerance(ch, thresholds) ==
  IF ch.tolerance # 0 THEN [n |-> ch.tolerance, d |-> 1]
  ELSE thresholds.DIRECTION_TOLERANCE

\* A hold that must exceed the two seconds.
HeldLongEnoughStrict(t, since) == t - since > HOLD_SECONDS * 1000

\* "holdTime >= 2", holdTime = (Date.now() - lastDirectionMatchTime) / 1000
HeldLongEnough(t, since) == t - since >= HOLD_SECONDS * 1000

\* A completing performance measured against the half circle.
CompletionPerformanceOfHalfCircle(diff, tolerance) == Perf(180 - diff, 180)

\* "1.0 - (diff / tolerance)"
CompletionPerformance(diff, tolerance) ==
  Perf(tolerance.n - diff * tolerance.d, tolerance.n)

verifyDirectionChallenge(D, ch, magnetometer, thresholds, t) ==
  LET diff == HeadingDiff(ch, magnetometer)
      tolerance == Tolerance(ch, thresholds)
      isMatched == Le(diff, tolerance)
      progress == Perf(180 - diff, 180)
  IN IF isMatched
       THEN IF ~D.directionMatched
              THEN Outcome([D EXCEPT !.directionMatched = TRUE,
                                     !.lastDirectionMatchTime = t],
                           FALSE, progress, <<"directionMatched">>, "")
              ELSE IF HeldLongEnough(t, D.lastDirectionMatchTime)
                     THEN Outcome([D EXCEPT !.directionMatched = FALSE,
                                            !.lastDirectionMatchTime = 0],
                                  TRUE, CompletionPerformance(diff, tolerance),
                                  <<>>, "")
                     ELSE Outcome(D, FALSE, progress, <<>>, "")
       ELSE Outcome([D EXCEPT !.directionMatched = FALSE, !.lastDirectionMatchTime = 0],
                    FALSE, progress, <<>>, "")

----------------------------------------------------------------------------
\* verifyChallengeCompletion

Null == [null |-> TRUE]
IsNull(v) == "null" \in DOMAIN v

\* A shake test that also accepts a magnitude of exactly 2.5.
ShakenAtThreshold(magnitude) == magnitude >= SHAKE_MAGNITUDE

\* "magnitude > 2.5"
Shaken(magnitude) == magnitude > SHAKE_MAGNITUDE

\* A null guard that clears the tracking state on its way out.
NullOutcomeResets(D) == Outcome(ResetTracking(D), FALSE, Perf(0, 1), <<>>, "")

\* "return { completed: false, performance: 0 }" of the null guard
NullOutcome(D) == Outcome(D, FALSE, Perf(0, 1), <<>>, "")

verifyChallengeCompletion(D, ch, data, m, t) ==
  IF IsNull(ch) \/ IsNull(data) THEN NullOutcome(D)
  ELSE LET adjustedThresholds == AdjustThresholds(m)
       IN CASE ch.type = RUN ->
                 verifyRunChallenge(D, ch, data.accelerometer, adjustedThresholds)
            [] ch.type = ROTATE ->
                 verifyRotateChallenge(D, ch, data.gyroscope, adjustedThresholds)
            [] ch.type = TILT ->
                 verifyTiltChallenge(D, ch, data.gyroscope, adjustedThresholds, t)
            [] ch.type = DIRECTION ->
                 verifyDirectionChallenge(D, ch, data.magnetometer, adjustedThresholds, t)
            [] OTHER ->
                 IF Shaken(Magnitude(data.accelerometer))
                   THEN Outcome(D, TRUE, Perf(7, 10), <<>>, "")
                   ELSE Outcome(D, FALSE, Perf(0, 1), <<>>, "")

----------------------------------------------------------------------------
\* generateChallenge

\* A type list that offers the tilt challenges on the accelerometer.
AvailableChallengeTypesTiltOnAccelerometer(sensors) ==
  (IF sensors.accelerometer THEN <<RUN, TILT>> ELSE <<>>)
  \o (IF sensors.gyroscope THEN <<ROTATE>> ELSE <<>>)
  \o (IF sensors.magnetometer THEN <<DIRECTION>> ELSE <<>>)

\* availableChallengeTypes, in push order.
AvailableChallengeTypes(sensors) ==
  (IF sensors.accelerometer THEN <<RUN>> ELSE <<>>)
  \o (IF sensors.gyroscope THEN <<ROTATE, TILT>> ELSE <<>>)
  \o (IF sensors.magnetometer THEN <<DIRECTION>> ELSE <<>>)

BasicChallenge ==
  [type |-> BASIC, instruction |-> "Shake your device",
   hint |-> "No advanced sensors detected, just shake the device"]

SeqRange(seq) == {seq[i] : i \in 1..Len(seq)}

\* "{ type: selectedType, ...selectedChallenge }"
Descriptor(selectedType, selectedChallenge) ==
  [f \in DOMAIN selectedChallenge \cup {"type"} |->
     IF f = "type" THEN selectedType ELSE selectedChallenge[f]]

\* A fallback taken as soon as fewer than two types are on offer.
NoTypeAvailableBelowTwo(types) == Len(types) <= 1

\* "availableChallengeTypes.length === 0"
NoTypeAvailable(types) == Len(types) = 0

\* Every descriptor generateChallenge can return for these availability flags
\* (one per pair of Math.random() draws).
generateChallenge(sensors) ==
  LET types == AvailableChallengeTypes(sensors)
  IN IF NoTypeAvailable(types) THEN {BasicChallenge}
     ELSE UNION { { Descriptor(selectedType, CHALLENGES[selectedType][i]) :
                      i \in 1..Len(CHALLENGES[selectedType]) } :
                  selectedType \in SeqRange(types) }

----------------------------------------------------------------------------
\* Inputs: the sensor readings the model draws from (tenths).

Vec(x, y, z) == [x |-> x, y |-> y, z |-> z]
ZeroVec == Vec(0, 0, 0)

\* Magnitudes 0, 0.8, 0.9, 1.2, 1.5, 1.6, 1.7, 2.5, 3.0.
AccelSamples ==
  { ZeroVec, Vec(0, 0, 8), Vec(0, 0, 9), Vec(0, 0, 12), Vec(9, 12, 0),
    Vec(0, -16, 0), Vec(8, 15, 0), Vec(15, 20, 0), Vec(0, 0, 30) }

\* Rotations about z of 0, 0.5, 1 and 10 rad/s either way (the last of them
\* while tilted as well).
RotateSamples ==
  { ZeroVec, Vec(0, 0, 5), Vec(0, 0, -5), Vec(0, 0, 10), Vec(0, 0, -10),
    Vec(10, -10, 100), Vec(0, 0, -100) }

\* Tilts about x and y of 0, 0.5 and 1 rad/s.
TiltSamples ==
  { ZeroVec, Vec(10, 0, 0), Vec(-10, 0, 0), Vec(0, 10, 0), Vec(0, -10, 0),
    Vec(10, -10, 0), Vec(5, 0, 0), Vec(-5, 10, 0) }

MagSamples == { Vec(e[1], e[2], 0) : e \in Atan2Table }

SensorData(a, g, m) == [accelerometer |-> a, gyroscope |-> g, magnetometer |-> m]
ZeroData == SensorData(ZeroVec, ZeroVec, ZeroVec)

\* The snapshots handed to the verification of challenge ch: the family its
\* detector reads moves, the others rest.
Snapshots(ch) ==
  CASE ch.type = ROTATE -> {SensorData(ZeroVec, g, ZeroVec) : g \in RotateSamples}
    [] ch.type = TILT -> {SensorData(ZeroVec, g, ZeroVec) : g \in TiltSamples}
    [] ch.type = DIRECTION -> {SensorData(ZeroVec, ZeroVec, m) : m \in MagSamples}
    [] OTHER -> {SensorData(a, ZeroVec, ZeroVec) : a \in AccelSamples}

Sensors(a, g, m) == [accelerometer |-> a, gyroscope |-> g, magnetometer |-> m]
Devices == {Sensors(a, g, m) : a \in BOOLEAN, g \in BOOLEAN, m \in BOOLEAN}
NoSensors == Sensors(FALSE, FALSE, FALSE)
\* Devices with at most one sensor family: between them they generate every
\* challenge of the catalog and the fallback, each once.
SingleDevices ==
  {d \in Devices : Cardinality({f \in DOMAIN d : d[f]}) <= 1}

\* easy, medium, hard (tenths).
Sensitivities == {7, 10, 13}

\* DEFAULT_SETTINGS (tenths): what getDifficultySettings returns while nothing
\* has been saved.
DEFAULT_SETTINGS == [sensitivity |-> 10, timeMultiplier |-> 10]

DifficultyLevels == {"easy", "medium", "hard"}

\* The settings changeDifficulty(value) saves (tenths).
DifficultySettings(value) ==
  CASE value = "easy" -> [sensitivity |-> 7, timeMultiplier |-> 13]
    [] value = "hard" -> [sensitivity |-> 13, timeMultiplier |-> 7]
    [] OTHER -> [sensitivity |-> 10, timeMultiplier |-> 10]

\* "sensitivityMultiplier = 1.0": the default value of the third parameter of
\* verifyChallengeCompletion (tenths).
DefaultSensitivity == 10

\* Longest transition buffer the model lets a tilt challenge build.
MaxTiltStates == 4

ZeroResult == [completed |-> FALSE, performance |-> Perf(0, 1)]

----------------------------------------------------------------------------
\* The engine on its own: one challenge, verified tick after tick.

\* No completion poll; no confirmation dialog.
NoPoll == [active |-> FALSE, timeLeft |-> 0]
NoDialog == [open |-> FALSE, score |-> 0, sessionChallenges |-> <<>>]

\* The state of the screen before it has done anything.
ScreenIdle ==
  /\ isPaused = TRUE /\ timeLeft = 0 /\ score = 0 /\ sessionChallenges = <<>>
  /\ intervals = {} /\ timeouts = {} /\ poll = NoPoll /\ starting = <<>>
  /\ focused = FALSE /\ mounted = TRUE /\ dialog = NoDialog /\ saving = <<>>

\* The detector variables take the values of the record D.
SetDetector(D) ==
  /\ lastAccelMagnitude' = D.lastAccelMagnitude
  /\ stepCount' = D.stepCount
  /\ rotationProgress' = D.rotationProgress
  /\ tiltStates' = D.tiltStates
  /\ directionMatched' = D.directionMatched
  /\ lastDirectionMatchTime' = D.lastDirectionMatchTime
  /\ directionMatchDuration' = D.directionMatchDuration

\* The module-level initialisers of the tracking variables.
DetectorInitial ==
  /\ lastAccelMagnitude = 0 /\ stepCount = 0 /\ rotationProgress = 0
  /\ tiltStates = <<>> /\ directionMatched = FALSE
  /\ lastDirectionMatchTime = 0 /\ directionMatchDuration = 0

InitEngine ==
  /\ device \in SingleDevices
  /\ availableSensors = device
  /\ subscribed = NoSensors
  /\ listeners = [f \in {"accelerometer", "gyroscope", "magnetometer"} |-> 0]
  /\ currentAccelerometer = ZeroVec /\ currentGyroscope = ZeroVec
  /\ currentMagnetometer = ZeroVec
  /\ DetectorInitial
  /\ challenge \in generateChallenge(availableSensors)
  /\ challengeId = 1
  /\ sensorData = ZeroData
  /\ ScreenIdle
  /\ history = <<>> /\ alert = "" /\ difficulty = "medium"
  /\ now = ClockStep
  /\ sensitivityMultiplier \in Sensitivities
  /\ settings = DEFAULT_SETTINGS
  /\ result = ZeroResult /\ notified = <<>> /\ tiltDetected = "" /\ lastOp = "init"
  /\ lastVerified = 0 /\ firedFor = 0 /\ presses = 0

\* The detectors that call Date.now(): direction, and tilt when the template
\* sets a duration.
ReadsClock(ch) == ch.type = DIRECTION \/ (ch.type = TILT /\ ch.duration # 0)

\* verifyChallengeCompletion(challenge, data, sensitivityMultiplier) at a later
\* time.  Date.now() is advanced only for the detectors that read it.
EngineVerify ==
  \E data \in Snapshots(challenge), dt \in 0..MaxDt :
    LET t == now + dt * ClockStep
        out == verifyChallengeCompletion(DetectorState, challenge, data,
                                         sensitivityMultiplier, t)
    IN /\ t <= MaxClockSteps * ClockStep
       /\ dt > 0 => ReadsClock(challenge)
       /\ Len(out.d.tiltStates) <= MaxTiltStates
       /\ now' = t
       /\ sensorData' = data
       /\ SetDetector(out.d)
       /\ result' = out.result
       /\ notified' = out.sounds
       /\ tiltDetected' = out.tilt
       /\ lastOp' = "verify"
       /\ lastVerified' = challengeId
       /\ UNCHANGED <<utilsVars, challenge, challengeId, isPaused, timeLeft, score,
                      sessionChallenges, intervals, timeouts, poll, starting, focused,
                      mounted, dialog, saving, device, difficulty, settings, history,
                      alert, sensitivityMultiplier, firedFor, presses>>

\* resetChallengeTracking()
EngineReset ==
  /\ SetDetector(ResetTracking(DetectorState))
  /\ notified' = <<>>
  /\ lastOp' = "reset"
  /\ UNCHANGED <<utilsVars, screenVars, device, difficulty, settings, history, alert,
                 now, sensitivityMultiplier, result, tiltDetected, lastVerified,
                 firedFor, presses>>

NextEngine == EngineVerify \/ EngineReset

SpecEngine == InitEngine /\ [][NextEngine]_vars

\* The DIRECTION detector on its own.  verifyChallengeCompletion is exported
\* and takes any descriptor: besides the catalog's templates, which all set a
\* tolerance, the detector is given descriptors that set none (tolerance 0
\* stands for the absent field; both are falsy in "challenge.tolerance ||").
MagnetometerOnly == Sensors(FALSE, FALSE, TRUE)

NoToleranceChallenges ==
  { [type |-> DIRECTION, instruction |-> "Face North", direction |-> "N",
     tolerance |-> 0],
    [type |-> DIRECTION, instruction |-> "Face Northwest", direction |-> "NW",
     tolerance |-> 0] }

DirectionChallenges == generateChallenge(MagnetometerOnly) \cup NoToleranceChallenges

InitDirection ==
  /\ device = MagnetometerOnly
  /\ availableSensors = device
  /\ subscribed = NoSensors
  /\ listeners = [f \in {"accelerometer", "gyroscope", "magnetometer"} |-> 0]
  /\ currentAccelerometer = ZeroVec /\ currentGyroscope = ZeroVec
  /\ currentMagnetometer = ZeroVec
  /\ DetectorInitial
  /\ challenge \in DirectionChallenges
  /\ challengeId = 1
  /\ sensorData = ZeroData
  /\ ScreenIdle
  /\ history = <<>> /\ alert = "" /\ difficulty = "medium"
  /\ now = ClockStep
  /\ sensitivityMultiplier \in Sensitivities
  /\ settings = DEFAULT_SETTINGS
  /\ result = ZeroResult /\ notified = <<>> /\ tiltDetected = "" /\ lastOp = "init"
  /\ lastVerified = 0 /\ firedFor = 0 /\ presses = 0

SpecDirection == InitDirection /\ [][NextEngine]_vars

\* The engine called with missing arguments as well: a null (or undefined)
\* challenge, a null sample, or both.
EngineVerifyNull ==
  \E ch \in {Null, challenge}, data \in {Null, sensorData} :
    LET out == verifyChallengeCompletion(DetectorState, ch, data,
                                         sensitivityMultiplier, now)
    IN /\ IsNull(ch) \/ IsNull(data)
       /\ SetDetector(out.d)
       /\ result' = out.result
       /\ notified' = out.sounds
       /\ tiltDetected' = out.tilt
       /\ lastOp' = "verifyNull"
       /\ lastVerified' = IF IsNull(ch) THEN 0 ELSE challengeId
       /\ UNCHANGED <<utilsVars, screenVars, device, difficulty, settings, history,
                      alert, now, sensitivityMultiplier, firedFor, presses>>

InitNull == InitEngine /\ sensitivityMultiplier = DefaultSensitivity

NextNull == EngineVerify \/ EngineVerifyNull \/ EngineReset

SpecNull == InitNull /\ [][NextNull]_vars

----------------------------------------------------------------------------
\* The ChallengeScreen component driving the engine.
\*
\* React commits are taken as atomic with the handler that sets the state: the
\* completion-poll effect (deps [isPaused, challenge]) is torn down and set up
\* again in the step that changes isPaused or challenge.  Timers fire in any
\* order (every interleaving of the 100 ms poll, the 1 s countdowns, the 2 s
\* timeouts and the user's presses).  Two live timers with the same callback
\* closure are indistinguishable, so intervals and timeouts are sets of
\* closures; `current` marks the one the ref (timerRef, challengeTimeout)
\* points to.

\* Bounds: challenges generated, outcomes recorded, startChallenge calls
\* awaiting their sensors, user events (button presses, leaving the screen).
MaxChallenges == 2
MaxSession == 2
MaxStarting == 1
MaxPresses == 3

Families == {"accelerometer", "gyroscope", "magnetometer"}

\* The readings the screen's listeners deliver: rest and one decisive reading
\* per family (a 3.0 shake, 20 rad/s about z, a tilt to either side, north
\* and east), and a heading at the edge of the 20 degree tolerance of north
\* (19.95 degrees, 20 to the whole degree).
AppAccelSamples == {ZeroVec, Vec(0, 0, 30)}
AppRotateSamples == {ZeroVec, Vec(0, 0, 200)}
AppTiltSamples == {ZeroVec, Vec(0, -10, 0), Vec(0, 10, 0)}
AppMagSamples == {Vec(30, 0, 0), Vec(0, 30, 0), Vec(1000, 363, 0)}

\* The devices the screen runs on.
AppDevices == SingleDevices

\* The templates the screen's Math.random() draws select, per type (1-based
\* index into CHALLENGES[type]).
AppDraws == [t \in CHALLENGE_TYPES |->
              CASE t = RUN -> {1}
                [] t = ROTATE -> {3}
                [] t = TILT -> {1}
                [] t = DIRECTION -> {1}]

\* generateChallenge() restricted to those draws.
AppChallenges(sensors) ==
  LET types == AvailableChallengeTypes(sensors)
  IN IF Len(types) = 0 THEN generateChallenge(sensors)
     ELSE UNION { { Descriptor(t, CHALLENGES[t][i]) : i \in AppDraws[t] } :
                  t \in SeqRange(types) }
            \cap generateChallenge(sensors)

\* The family a challenge's detector reads, and the readings it may deliver.
FamilyOf(ch) ==
  CASE ch.type \in {ROTATE, TILT} -> "gyroscope"
    [] ch.type = DIRECTION -> "magnetometer"
    [] OTHER -> "accelerometer"

AppSamples(ch) ==
  CASE ch.type = ROTATE -> AppRotateSamples
    [] ch.type = TILT -> AppTiltSamples
    [] ch.type = DIRECTION -> AppMagSamples
    [] OTHER -> AppAccelSamples

\* getSensorData()
getSensorData ==
  SensorData(currentAccelerometer, currentGyroscope, currentMagnetometer)

\* The caches after the listeners have delivered since the last poll: the
\* family the challenge reads, if subscribed, delivers v; other subscribed
\* families deliver rest; an unsubscribed family keeps its cached reading.
Delivered(ch, v) ==
  [f \in Families |->
     IF ~subscribed[f] THEN getSensorData[f]
     ELSE IF f = FamilyOf(ch) THEN v ELSE ZeroVec]

\* timeLimit of generateNewChallenge
TimeLimit(ch) ==
  CASE ch.type = RUN -> 10
    [] ch.type = ROTATE -> 8
    [] ch.type = TILT -> 6
    [] ch.type = DIRECTION -> 8
    [] OTHER -> 15

\* An entry of the session list: "{ ...challenge, completed, score, timeLeft
\* [, skipped] }"; id is the identity of the challenge object spread into it.
ChallengeOutcome(ch, id, completed, points, left, skipped) ==
  [challenge |-> ch, id |-> id, completed |-> completed, score |-> points,
   timeLeft |-> left, skipped |-> skipped]

\* An update computed from the list a stale closure holds (the empty one).
AddOutcomeStale(prev, outcome) == <<outcome>>

\* "setSessionChallenges((prev) => [...prev, outcome])"
AddOutcome(prev, outcome) == Append(prev, outcome)

\* A score computed from the score a stale closure holds (0).
AddPointsStale(prevScore, points) == points

\* "setScore((prevScore) => prevScore + points)"
AddPoints(prevScore, points) == prevScore + points

\* clearInterval(timerRef.current) / clearTimeout(challengeTimeout.current)
ClearCurrent(timers) == {t \in timers : ~t.current}
\* ref.current = setInterval(...) / setTimeout(...): the ref moves to the new
\* timer; a timer it pointed to stays live.
SetCurrent(timers, closure) ==
  {[t EXCEPT !.current = FALSE] : t \in timers}
    \cup {[closure EXCEPT !.current = TRUE]}

Interval(ch, id) == [current |-> FALSE, challenge |-> ch, id |-> id]
Timeout(id) == [current |-> FALSE, id |-> id]

\* getSensorStatus(): the availability flags and, per family, whether the
\* module holds a subscription.
getSensorStatus(flags, subs) ==
  [accelerometer |-> flags.accelerometer, gyroscope |-> flags.gyroscope,
   magnetometer |-> flags.magnetometer,
   accelerometerActive |-> subs.accelerometer,
   gyroscopeActive |-> subs.gyroscope,
   magnetometerActive |-> subs.magnetometer]

\* stopSensorServices(): every non-null subscription is removed and nulled.
stopSensorServices ==
  /\ subscribed' = NoSensors
  /\ listeners' = [f \in Families |->
                     IF subscribed[f] /\ listeners[f] > 0 THEN listeners[f] - 1
                     ELSE listeners[f]]

\* A step of the screen that verifies nothing returns no VerificationResult.
NoVerification == result' = ZeroResult /\ tiltDetected' = ""

\* The screen as constructed, on one of `devices`, with one of `persisted` in
\* the settings store.
InitScreen(devices, persisted) ==
  /\ device \in devices
  /\ availableSensors \in {NoSensors, device}
  /\ subscribed = NoSensors
  /\ listeners = [f \in Families |-> 0]
  /\ currentAccelerometer = ZeroVec /\ currentGyroscope = ZeroVec
  /\ currentMagnetometer = ZeroVec
  /\ DetectorInitial
  /\ challenge = Null
  /\ challengeId = 0
  /\ sensorData = ZeroData
  /\ ScreenIdle
  /\ history = <<>> /\ alert = "" /\ difficulty = "medium"
  /\ now = ClockStep
  /\ sensitivityMultiplier = DefaultSensitivity
  /\ settings \in persisted
  /\ result = ZeroResult /\ notified = <<>> /\ tiltDetected = "" /\ lastOp = "init"
  /\ lastVerified = 0 /\ firedFor = 0 /\ presses = 0

Init == InitScreen(AppDevices, {DEFAULT_SETTINGS})

\* generateNewChallenge(): resetChallengeTracking(), generateChallenge(),
\* setChallenge, setTimeLeft(timeLimit), setIsPaused(true); the poll effect of
\* the replaced challenge is cleaned up.
generateNewChallenge ==
  /\ challengeId < MaxChallenges
  /\ SetDetector(ResetTracking(DetectorState))
  /\ \E newChallenge \in AppChallenges(availableSensors) :
       /\ challenge' = newChallenge
       /\ timeLeft' = TimeLimit(newChallenge)
  /\ challengeId' = challengeId + 1
  /\ isPaused' = TRUE
  /\ poll' = NoPoll

\* The focus listener (closure of the first render, where sessionChallenges
\* is []): startNewSession().
Focus ==
  /\ mounted /\ ~focused
  /\ focused' = TRUE
  /\ score' = 0
  /\ sessionChallenges' = <<>>
  /\ generateNewChallenge
  /\ NoVerification
  /\ notified' = <<>>
  /\ lastOp' = "focus"
  /\ firedFor' = 0
  /\ UNCHANGED <<utilsVars, sensorData, intervals, timeouts, starting, mounted, dialog,
                 saving, device, difficulty, settings, history, alert, now,
                 sensitivityMultiplier, lastVerified, presses>>

\* The blur listener: pauseChallenge(); stopSensors().
Blur ==
  /\ mounted /\ focused /\ presses < MaxPresses
  /\ presses' = presses + 1
  /\ focused' = FALSE
  /\ isPaused' = TRUE
  /\ intervals' = ClearCurrent(intervals)
  /\ poll' = NoPoll
  /\ stopSensorServices
  /\ NoVerification
  /\ notified' = <<>>
  /\ lastOp' = "blur"
  /\ firedFor' = 0
  /\ UNCHANGED <<availableSensors, currentAccelerometer, currentGyroscope,
                 currentMagnetometer, detVars, challenge, challengeId, timeLeft, score,
                 sessionChallenges, sensorData, timeouts, starting, mounted, dialog,
                 saving, device, difficulty, settings, history, alert, now,
                 sensitivityMultiplier, lastVerified>>

\* Start pressed: startChallenge() runs to its await (startSensors ->
\* startSensorServices -> initSensors -> isAvailableAsync).
StartPress ==
  /\ mounted /\ focused /\ ~dialog.open /\ isPaused
  /\ presses < MaxPresses /\ Len(starting) < MaxStarting
  /\ presses' = presses + 1
  /\ starting' = Append(starting, Interval(challenge, challengeId))
  /\ NoVerification
  /\ notified' = <<>>
  /\ lastOp' = "startPress"
  /\ firedFor' = 0
  /\ UNCHANGED <<utilsVars, detVars, challenge, challengeId, isPaused, timeLeft, score,
                 sessionChallenges, sensorData, intervals, timeouts, poll, focused,
                 mounted, dialog, saving, device, difficulty, settings, history, alert,
                 now, sensitivityMultiplier, lastVerified>>

\* The availability promises resolve: initSensors sets the flags,
\* startSensorServices subscribes to every available family (the previous
\* subscription object, if any, is overwritten, not removed), startSensors
\* plays the start sound, and startChallenge goes on: setIsPaused(false) and
\* timerRef.current = setInterval(..., 1000).
StartResume ==
  /\ starting # <<>>
  /\ starting' = Tail(starting)
  /\ availableSensors' = device
  /\ subscribed' = [f \in Families |-> subscribed[f] \/ device[f]]
  /\ listeners' = [f \in Families |->
                     IF device[f] /\ listeners[f] < 2 THEN listeners[f] + 1
                     ELSE listeners[f]]
  /\ notified' = <<"challengeStart">>
  /\ intervals' = SetCurrent(intervals, Head(starting))
  /\ isPaused' = FALSE
  /\ poll' = IF isPaused /\ ~IsNull(challenge)
               THEN [active |-> TRUE, timeLeft |-> timeLeft] ELSE poll
  /\ NoVerification
  /\ lastOp' = "startResume"
  /\ firedFor' = 0
  /\ UNCHANGED <<currentAccelerometer, currentGyroscope, currentMagnetometer, detVars,
                 challenge, challengeId, timeLeft, score, sessionChallenges,
                 sensorData, timeouts, focused, mounted, dialog, saving, device,
                 difficulty, settings, history, alert, now, sensitivityMultiplier,
                 lastVerified, presses>>

\* Pause pressed: pauseChallenge(): setIsPaused(true) and
\* clearInterval(timerRef.current).
Pause ==
  /\ mounted /\ focused /\ ~dialog.open /\ ~isPaused
  /\ presses < MaxPresses
  /\ presses' = presses + 1
  /\ isPaused' = TRUE
  /\ intervals' = ClearCurrent(intervals)
  /\ poll' = NoPoll
  /\ NoVerification
  /\ notified' = <<>>
  /\ lastOp' = "pause"
  /\ firedFor' = 0
  /\ UNCHANGED <<utilsVars, detVars, challenge, challengeId, timeLeft, score,
                 sessionChallenges, sensorData, timeouts, starting, focused, mounted,
                 dialog, saving, device, difficulty, settings, history, alert, now,
                 sensitivityMultiplier, lastVerified>>

\* A countdown interval fires: setTimeLeft(prev => ...); at prev <= 1 it
\* clears timerRef.current and calls challengeFailed() of its own closure.
CountdownTick ==
  \E iv \in intervals :
    /\ mounted
    /\ IF timeLeft <= 1
         THEN /\ Len(sessionChallenges) < MaxSession
              /\ timeLeft' = 0
              /\ intervals' = ClearCurrent(intervals)
              /\ notified' = <<"challengeFail">>
              /\ sessionChallenges' =
                   AddOutcome(sessionChallenges,
                              ChallengeOutcome(iv.challenge, iv.id, FALSE, 0, 0, FALSE))
              /\ timeouts' = SetCurrent(timeouts, Timeout(iv.id))
         ELSE /\ timeLeft' = timeLeft - 1
              /\ notified' = <<>>
              /\ UNCHANGED <<intervals, sessionChallenges, timeouts>>
    /\ NoVerification
    /\ lastOp' = "countdown"
    /\ firedFor' = iv.id
    /\ UNCHANGED <<utilsVars, detVars, challenge, challengeId, isPaused, score,
                   sensorData, poll, starting, focused, mounted, dialog, saving,
                   device, difficulty, settings, history, alert, now,
                   sensitivityMultiplier, lastVerified, presses>>

\* The completion poll fires: getSensorData(), setSensorData,
\* verifyChallengeCompletion(challenge, sensorState) and, on a completed
\* verdict, challengeCompleted(Math.round(performance * 100)).  The call passes
\* no third argument, so the multiplier takes its default.
PollTick ==
  /\ mounted /\ poll.active
  /\ \E v \in AppSamples(challenge), dt \in {0, MaxDt} :
       LET t == now + dt * ClockStep
           data == Delivered(challenge, v)
           out == verifyChallengeCompletion(DetectorState, challenge, data,
                                            DefaultSensitivity, t)
           points == Points(out.result.performance)
       IN /\ t <= MaxClockSteps * ClockStep
          /\ dt > 0 => ReadsClock(challenge)
          /\ Len(out.d.tiltStates) <= MaxTiltStates
          /\ now' = t
          /\ currentAccelerometer' = data.accelerometer
          /\ currentGyroscope' = data.gyroscope
          /\ currentMagnetometer' = data.magnetometer
          /\ sensorData' = data
          /\ SetDetector(out.d)
          /\ result' = out.result
          /\ tiltDetected' = out.tilt
          /\ lastVerified' = challengeId
          /\ IF out.result.completed
               THEN /\ Len(sessionChallenges) < MaxSession
                    /\ intervals' = ClearCurrent(intervals)
                    /\ isPaused' = TRUE
                    /\ poll' = NoPoll
                    /\ notified' = out.sounds \o <<"challengeComplete">>
                    /\ score' = AddPoints(score, points)
                    /\ sessionChallenges' =
                         AddOutcome(sessionChallenges,
                                    ChallengeOutcome(challenge, challengeId, TRUE,
                                                     points, poll.timeLeft, FALSE))
                    /\ timeouts' = SetCurrent(timeouts, Timeout(challengeId))
               ELSE /\ notified' = out.sounds
                    /\ UNCHANGED <<intervals, isPaused, poll, score, sessionChallenges,
                                   timeouts>>
          /\ lastOp' = "verify"
          /\ firedFor' = challengeId
          /\ sensitivityMultiplier' = DefaultSensitivity
          /\ UNCHANGED <<availableSensors, subscribed, listeners, challenge,
                         challengeId, timeLeft, starting, focused, mounted, dialog,
                         saving, device, difficulty, settings, history, alert, presses>>

\* A next-challenge timeout fires: generateNewChallenge().
TimeoutFire ==
  \E to \in timeouts :
    /\ mounted
    /\ timeouts' = timeouts \ {to}
    /\ generateNewChallenge
    /\ NoVerification
    /\ notified' = <<>>
    /\ lastOp' = "timeout"
    /\ firedFor' = to.id
    /\ UNCHANGED <<utilsVars, score, sessionChallenges, sensorData, intervals,
                   starting, focused, mounted, dialog, saving, device, difficulty,
                   settings, history, alert, now, sensitivityMultiplier, lastVerified,
                   presses>>

\* Skip pressed: skipChallenge().
Skip ==
  /\ mounted /\ focused /\ ~dialog.open
  /\ presses < MaxPresses
  /\ Len(sessionChallenges) < MaxSession
  /\ presses' = presses + 1
  /\ intervals' = ClearCurrent(intervals)
  /\ sessionChallenges' =
       AddOutcome(sessionChallenges,
                  ChallengeOutcome(challenge, challengeId, FALSE, 0, timeLeft, TRUE))
  /\ generateNewChallenge
  /\ NoVerification
  /\ notified' = <<>>
  /\ lastOp' = "skip"
  /\ firedFor' = 0
  /\ UNCHANGED <<utilsVars, score, sensorData, timeouts, starting, focused, mounted,
                 dialog, saving, device, difficulty, settings, history, alert, now,
                 sensitivityMultiplier, lastVerified>>

Next ==
  \/ Focus \/ Blur \/ StartPress \/ StartResume \/ Pause \/ CountdownTick \/ PollTick
  \/ TimeoutFire \/ Skip

Spec == Init /\ [][Next]_vars

\* The screen opened after a difficulty has been chosen in the settings
\* screen (changeDifficulty saves it before the challenge screen can be
\* mounted: Settings is reached from Home only), on a phone with an
\* accelerometer.
AccelerometerOnly == Sensors(TRUE, FALSE, FALSE)

InitDifficulty ==
  InitScreen({AccelerometerOnly},
             {DifficultySettings(value) : value \in DifficultyLevels})

SpecDifficulty == InitDifficulty /\ [][Next]_vars

----------------------------------------------------------------------------
\* The screen with its I/O failures and the end of the session.

\* "updatedData.slice(-50)"
HISTORY_LIMIT == 50

\* sessionData of endSession: the score and the list of the closure it runs in.
SessionRecord(date, closureScore, closureChallenges) ==
  [date |-> date, score |-> closureScore, challenges |-> closureChallenges,
   totalChallenges |-> Len(closureChallenges)]

\* A trim that keeps the oldest records.
saveChallengeKeepsOldest(existingData, challengeData) ==
  LET updatedData == Append(existingData, challengeData)
  IN IF Len(updatedData) > HISTORY_LIMIT
       THEN SubSeq(updatedData, 1, HISTORY_LIMIT)
       ELSE updatedData

\* saveChallenge(challengeData) when AsyncStorage answers: the history it
\* writes back.
saveChallenge(existingData, challengeData) ==
  LET updatedData == Append(existingData, challengeData)
  IN IF Len(updatedData) > HISTORY_LIMIT
       THEN SubSeq(updatedData, Len(updatedData) - HISTORY_LIMIT + 1, Len(updatedData))
       ELSE updatedData

\* The order in which startSensorServices subscribes.
FamilyIndex == [accelerometer |-> 1, gyroscope |-> 2, magnetometer |-> 3]

\* The blur listener's and the unmount cleanup's common effect on the timers,
\* the poll and the subscriptions.
Quiesce ==
  /\ isPaused' = TRUE
  /\ intervals' = ClearCurrent(intervals)
  /\ poll' = NoPoll
  /\ stopSensorServices

\* The availability promises resolve but addListener of an available family
\* throws: the families before it are subscribed, startSensorServices
\* rejects, startSensors catches and alerts (no start sound), and
\* startChallenge goes on: setIsPaused(false) and the countdown interval.
StartResumeFails ==
  /\ starting # <<>>
  /\ \E failing \in {f \in Families : device[f]} :
       LET reached(f) == device[f] /\ FamilyIndex[f] < FamilyIndex[failing]
       IN /\ subscribed' = [f \in Families |-> subscribed[f] \/ reached(f)]
          /\ listeners' = [f \in Families |->
                             IF reached(f) /\ listeners[f] < 2 THEN listeners[f] + 1
                             ELSE listeners[f]]
  /\ starting' = Tail(starting)
  /\ availableSensors' = device
  /\ alert' = "Failed to access device sensors"
  /\ notified' = <<>>
  /\ intervals' = SetCurrent(intervals, Head(starting))
  /\ isPaused' = FALSE
  /\ poll' = IF isPaused /\ ~IsNull(challenge)
               THEN [active |-> TRUE, timeLeft |-> timeLeft] ELSE poll
  /\ NoVerification
  /\ lastOp' = "startFailed"
  /\ firedFor' = 0
  /\ UNCHANGED <<currentAccelerometer, currentGyroscope, currentMagnetometer, detVars,
                 challenge, challengeId, timeLeft, score, sessionChallenges,
                 sensorData, timeouts, focused, mounted, dialog, saving, device,
                 difficulty, settings, history, now, sensitivityMultiplier,
                 lastVerified, presses>>

\* End pressed: confirmEndSession().  With outcomes in the list the
\* confirmation opens, holding the endSession of this render; with none,
\* navigation.goBack(): the screen blurs and unmounts.
ConfirmEndSession ==
  /\ mounted /\ focused /\ ~dialog.open
  /\ presses < MaxPresses
  /\ presses' = presses + 1
  /\ IF Len(sessionChallenges) > 0
       THEN /\ dialog' = [open |-> TRUE, score |-> score,
                          sessionChallenges |-> sessionChallenges]
            /\ UNCHANGED <<subscribed, listeners, isPaused, intervals, timeouts, poll,
                           focused, mounted>>
       ELSE /\ Quiesce
            /\ timeouts' = ClearCurrent(timeouts)
            /\ focused' = FALSE /\ mounted' = FALSE
            /\ UNCHANGED dialog
  /\ NoVerification
  /\ notified' = <<>>
  /\ lastOp' = "confirmEndSession"
  /\ firedFor' = 0
  /\ UNCHANGED <<availableSensors, currentAccelerometer, currentGyroscope,
                 currentMagnetometer, detVars, challenge, challengeId, timeLeft, score,
                 sessionChallenges, sensorData, starting, saving, device, difficulty,
                 settings, history, alert, now, sensitivityMultiplier, lastVerified>>

\* Cancel pressed in the confirmation.
CancelEndSession ==
  /\ mounted /\ dialog.open
  /\ presses < MaxPresses
  /\ presses' = presses + 1
  /\ dialog' = NoDialog
  /\ NoVerification
  /\ notified' = <<>>
  /\ lastOp' = "cancelEndSession"
  /\ firedFor' = 0
  /\ UNCHANGED <<utilsVars, detVars, challenge, challengeId, isPaused, timeLeft, score,
                 sessionChallenges, sensorData, intervals, timeouts, poll, starting,
                 focused, mounted, saving, device, difficulty, settings, history,
                 alert, now, sensitivityMultiplier, lastVerified>>

\* End pressed in the confirmation: endSession() of the render that opened
\* it runs to its await: timers cleared, setIsPaused(true), stopSensors(),
\* and saveChallenge(sessionData) called with that render's score and list
\* (with an empty list, navigation.navigate('Home') instead).
EndSession ==
  /\ mounted /\ dialog.open
  /\ presses < MaxPresses
  /\ presses' = presses + 1
  /\ dialog' = NoDialog
  /\ Quiesce
  /\ timeouts' = ClearCurrent(timeouts)
  /\ IF Len(dialog.sessionChallenges) > 0
       THEN /\ saving' = Append(saving, SessionRecord(now, dialog.score,
                                                      dialog.sessionChallenges))
            /\ UNCHANGED <<focused, mounted>>
       ELSE /\ focused' = FALSE /\ mounted' = FALSE
            /\ UNCHANGED saving
  /\ NoVerification
  /\ notified' = <<>>
  /\ lastOp' = "endSession"
  /\ firedFor' = 0
  /\ UNCHANGED <<availableSensors, currentAccelerometer, currentGyroscope,
                 currentMagnetometer, detVars, challenge, challengeId, timeLeft, score,
                 sessionChallenges, sensorData, starting, device, difficulty, settings,
                 history, alert, now, sensitivityMultiplier, lastVerified>>

\* A catch branch that gives the session up.
SaveFailureClearsSession(sessionScore, sessionList) ==
  [score |-> 0, sessionChallenges |-> <<>>,
   alert |-> "Failed to save session results"]

\* The catch branch of endSession: console.error and Alert.alert; the session
\* state is not written.
SaveFailure(sessionScore, sessionList) ==
  [score |-> sessionScore, sessionChallenges |-> sessionList,
   alert |-> "Failed to save session results"]

\* saveChallenge rejects (AsyncStorage failed, nothing written): endSession
\* catches and alerts; it does not navigate.
SaveFails ==
  /\ saving # <<>>
  /\ saving' = Tail(saving)
  /\ LET caught == SaveFailure(score, sessionChallenges)
     IN /\ score' = caught.score
        /\ sessionChallenges' = caught.sessionChallenges
        /\ alert' = caught.alert
  /\ NoVerification
  /\ notified' = <<>>
  /\ lastOp' = "saveFailed"
  /\ firedFor' = 0
  /\ UNCHANGED <<utilsVars, detVars, challenge, challengeId, isPaused, timeLeft,
                 sensorData, intervals, timeouts, poll, starting,
                 focused, mounted, dialog, device, difficulty, settings, history, now,
                 sensitivityMultiplier, lastVerified, presses>>

\* saveChallenge resolves: the record is in the history and endSession
\* navigates to Result, which blurs the screen (pauseChallenge, stopSensors).
SaveSucceeds ==
  /\ saving # <<>>
  /\ saving' = Tail(saving)
  /\ history' = saveChallenge(history, Head(saving))
  /\ IF mounted /\ focused
       THEN Quiesce /\ focused' = FALSE
       ELSE UNCHANGED <<isPaused, intervals, poll, subscribed, listeners, focused>>
  /\ NoVerification
  /\ notified' = <<>>
  /\ lastOp' = "saved"
  /\ firedFor' = 0
  /\ UNCHANGED <<availableSensors, currentAccelerometer, currentGyroscope,
                 currentMagnetometer, detVars, challenge, challengeId, timeLeft, score,
                 sessionChallenges, sensorData, timeouts, starting, mounted, dialog,
                 device, difficulty, settings, alert, now, sensitivityMultiplier,
                 lastVerified, presses>>

NextSession ==
  \/ Next
  \/ StartResumeFails \/ ConfirmEndSession \/ CancelEndSession \/ EndSession
  \/ SaveFails \/ SaveSucceeds

\* On a phone with an accelerometer.
InitSession == InitScreen({AccelerometerOnly}, {DEFAULT_SETTINGS})

SpecSession == InitSession /\ [][NextSession]_vars

----------------------------------------------------------------------------
\* The result screen's statistics.

\* A count of the failed that does not look at `skipped`.
StatsFailedIgnoresSkipped(challenges) ==
  LET count(keep(_)) ==
        Cardinality({i \in 1..Len(challenges) : keep(challenges[i])})
      isCompleted(c) == c.completed
      isFailed(c) == ~c.completed
      isSkipped(c) == c.skipped
  IN [total |-> Len(challenges), completed |-> count(isCompleted),
      failed |-> count(isFailed), skipped |-> count(isSkipped)]

\* ResultScreen's stats effect: total, and the lengths of the three filters.
Stats(challenges) ==
  LET count(keep(_)) ==
        Cardinality({i \in 1..Len(challenges) : keep(challenges[i])})
      isCompleted(c) == c.completed
      isFailed(c) == ~c.completed /\ ~c.skipped
      isSkipped(c) == c.skipped
  IN [total |-> Len(challenges), completed |-> count(isCompleted),
      failed |-> count(isFailed), skipped |-> count(isSkipped)]

----------------------------------------------------------------------------

\* The history screen's count of completed challenges.

\* HistoryItem: item.challenges.filter(c => c.score > 0).length
CompletedChallenges(challenges) ==
  Cardinality({i \in 1..Len(challenges) : challenges[i].score > 0})

----------------------------------------------------------------------------

\* The screen with Start pressed again while a start is still awaiting the
\* sensors (the Start button stays on screen until setIsPaused(false)).

\* startChallenge calls that may await at once when Start is pressed again.
MaxStartingAgain == 2

\* Start pressed with a startChallenge() already suspended at its await.
StartPressAgain ==
  /\ mounted /\ focused /\ ~dialog.open /\ isPaused
  /\ presses < MaxPresses
  /\ starting # <<>> /\ Len(starting) < MaxStartingAgain
  /\ presses' = presses + 1
  /\ starting' = Append(starting, Interval(challenge, challengeId))
  /\ NoVerification
  /\ notified' = <<>>
  /\ lastOp' = "startPress"
  /\ firedFor' = 0
  /\ UNCHANGED <<utilsVars, detVars, challenge, challengeId, isPaused, timeLeft, score,
                 sessionChallenges, sensorData, intervals, timeouts, poll, focused,
                 mounted, dialog, saving, device, difficulty, settings, history, alert,
                 now, sensitivityMultiplier, lastVerified>>

NextPause == Next \/ StartPressAgain

SpecPause == InitSession /\ [][NextPause]_vars

----------------------------------------------------------------------------

\* The settings screen and the settings store.

SettingsKeys == {"sensitivity", "timeMultiplier"}

\* Multipliers a caller may store (tenths): the three levels, values beyond
\* them and values between them.
SettingsValues == {5, 7, 8, 10, 12, 13, 15}

\* What callers pass to setDifficultySettings: both fields (the settings
\* screen), one field, or none.
SettingsArguments ==
  {DifficultySettings(value) : value \in DifficultyLevels}
    \cup {[k \in {"sensitivity"} |-> v] : v \in SettingsValues}
    \cup {[k \in {"timeMultiplier"} |-> v] : v \in SettingsValues}
    \cup {[k \in {} |-> 0]}

\* "{ ...DEFAULT_SETTINGS, ...settings }": what setDifficultySettings stores.
MergedSettings(argument) ==
  [k \in SettingsKeys |->
     IF k \in DOMAIN argument THEN argument[k] ELSE DEFAULT_SETTINGS[k]]

\* getDifficultySettings(): the stored settings; DEFAULT_SETTINGS when nothing
\* is stored or getItem rejects.
getDifficultySettings(stored, readable) ==
  IF readable /\ ~IsNull(stored) THEN stored ELSE DEFAULT_SETTINGS

\* A mapping with strict comparisons.
LevelOfStrict(diffSettings) ==
  IF diffSettings.sensitivity < 7 THEN "easy"
  ELSE IF diffSettings.sensitivity > 13 THEN "hard"
  ELSE "medium"

\* loadSettings: sensitivity <= 0.7 is easy, >= 1.3 hard, anything else medium.
LevelOf(diffSettings) ==
  IF diffSettings.sensitivity <= 7 THEN "easy"
  ELSE IF diffSettings.sensitivity >= 13 THEN "hard"
  ELSE "medium"

SettingsFrame ==
  UNCHANGED <<utilsVars, detVars, screenVars, device, history, now,
              sensitivityMultiplier, result, notified, tiltDetected, lastVerified,
              firedFor, presses>>

\* A difficulty is chosen: changeDifficulty(value), the save succeeding.
ChangeDifficulty ==
  \E value \in DifficultyLevels :
    /\ difficulty' = value
    /\ settings' = MergedSettings(DifficultySettings(value))
    /\ lastOp' = "changeDifficulty"
    /\ UNCHANGED alert
    /\ SettingsFrame

\* changeDifficulty(value) with setItem rejecting: the level shown changes,
\* the store does not, and the failure is alerted.
ChangeDifficultyFails ==
  \E value \in DifficultyLevels :
    /\ difficulty' = value
    /\ alert' = "Failed to save difficulty setting"
    /\ lastOp' = "changeDifficultyFailed"
    /\ UNCHANGED settings
    /\ SettingsFrame

\* setDifficultySettings(argument) called by another caller.
SetDifficultySettings ==
  \E argument \in SettingsArguments :
    /\ settings' = MergedSettings(argument)
    /\ lastOp' = "setDifficultySettings"
    /\ UNCHANGED <<difficulty, alert>>
    /\ SettingsFrame

\* The settings screen is opened, or reset: loadSettings().
LoadSettings ==
  \E readable \in BOOLEAN :
    /\ difficulty' = LevelOf(getDifficultySettings(settings, readable))
    /\ lastOp' = IF readable THEN "loadSettings" ELSE "loadSettingsUnreadable"
    /\ UNCHANGED <<settings, alert>>
    /\ SettingsFrame

NextSettings ==
  ChangeDifficulty \/ ChangeDifficultyFails \/ SetDifficultySettings \/ LoadSettings

\* Nothing has been stored yet.
InitSettings ==
  /\ InitScreen({AccelerometerOnly}, {Null})
  /\ availableSensors = NoSensors

SpecSettings == InitSettings /\ [][NextSettings]_vars

----------------------------------------------------------------------------

\* The history store on its own: saveChallenge and clearHistory called one
\* after the other, each either answered or failed by AsyncStorage.

\* Saves in one run.
MaxSaves == 53

\* The rest of the program is idle during a call on the store.
StoreFrame ==
  UNCHANGED <<utilsVars, detVars, screenVars, device, difficulty, settings, alert,
              sensitivityMultiplier, result, notified, tiltDetected, lastVerified,
              firedFor, presses>>

\* getHistory(): the stored list, [] when there is none or reading fails.
getHistory(stored, readable) == IF readable THEN stored ELSE <<>>

\* saveChallenge(record) resolves; the record carries the time of the call.
HistorySave ==
  /\ now < MaxSaves * ClockStep
  /\ now' = now + ClockStep
  /\ history' = saveChallenge(history, SessionRecord(now', 0, <<>>))
  /\ lastOp' = "saveChallenge"
  /\ StoreFrame

\* saveChallenge(record) rejects: getItem or setItem failed, nothing written.
HistorySaveFails ==
  /\ lastOp' = "saveChallengeFailed"
  /\ UNCHANGED <<history, now>>
  /\ StoreFrame

\* clearHistory() resolves: removeItem.
HistoryClear ==
  /\ history' = <<>>
  /\ lastOp' = "clearHistory"
  /\ UNCHANGED now
  /\ StoreFrame

\* clearHistory() rejects.
HistoryClearFails ==
  /\ lastOp' = "clearHistoryFailed"
  /\ UNCHANGED <<history, now>>
  /\ StoreFrame

NextHistory == HistorySave \/ HistorySaveFails \/ HistoryClear \/ HistoryClearFails

SpecHistory == InitSession /\ [][NextHistory]_vars

\* Generation on its own: generateChallenge() called between verification
\* ticks and resets, on every combination of availability flags, with the
\* sensor services started (each available family subscribed and caching).

\* A generation that clears the tracking state as it goes.
GenerationOutcomeResets(D, descriptor) ==
  [d |-> ResetTracking(D), challenge |-> descriptor]

\* What a call of generateChallenge leaves behind: the tracking state D it
\* found (the function assigns no module variable) and the descriptor returned.
GenerationOutcome(D, descriptor) == [d |-> D, challenge |-> descriptor]

InitGenerate ==
  /\ device \in Devices
  /\ availableSensors = device
  /\ subscribed = device
  /\ listeners = [f \in {"accelerometer", "gyroscope", "magnetometer"} |->
                    IF device[f] THEN 1 ELSE 0]
  /\ currentAccelerometer = ZeroVec /\ currentGyroscope = ZeroVec
  /\ currentMagnetometer = ZeroVec
  /\ DetectorInitial
  /\ challenge = Null
  /\ challengeId = 0
  /\ sensorData = ZeroData
  /\ ScreenIdle
  /\ history = <<>> /\ alert = "" /\ difficulty = "medium"
  /\ now = ClockStep
  /\ sensitivityMultiplier = DefaultSensitivity
  /\ settings = DEFAULT_SETTINGS
  /\ result = ZeroResult /\ notified = <<>> /\ tiltDetected = "" /\ lastOp = "init"
  /\ lastVerified = 0 /\ firedFor = 0 /\ presses = 0

\* generateChallenge(): one descriptor per pair of Math.random() draws.
EngineGenerate ==
  /\ challengeId < MaxChallenges
  /\ \E descriptor \in generateChallenge(availableSensors) :
       LET out == GenerationOutcome(DetectorState, descriptor)
       IN /\ challenge' = out.challenge
          /\ SetDetector(out.d)
  /\ challengeId' = challengeId + 1
  /\ notified' = <<>>
  /\ lastOp' = "generate"
  /\ UNCHANGED <<utilsVars, isPaused, timeLeft, score, sessionChallenges, sensorData,
                 intervals, timeouts, poll, starting, focused, mounted, dialog, saving,
                 device, difficulty, settings, history, alert, now,
                 sensitivityMultiplier, result, tiltDetected, lastVerified, firedFor,
                 presses>>

\* A verification tick of the generated challenge on the cached readings.
VerifyGenerated ==
  /\ ~IsNull(challenge)
  /\ \E v \in AppSamples(challenge), dt \in {0, MaxDt} :
       LET t == now + dt * ClockStep
           data == Delivered(challenge, v)
           out == verifyChallengeCompletion(DetectorState, challenge, data,
                                            sensitivityMultiplier, t)
       IN /\ t <= MaxClockSteps * ClockStep
          /\ dt > 0 => ReadsClock(challenge)
          /\ Len(out.d.tiltStates) <= MaxTiltStates
          /\ now' = t
          /\ currentAccelerometer' = data.accelerometer
          /\ currentGyroscope' = data.gyroscope
          /\ currentMagnetometer' = data.magnetometer
          /\ sensorData' = data
          /\ SetDetector(out.d)
          /\ result' = out.result
          /\ notified' = out.sounds
          /\ tiltDetected' = out.tilt
  /\ lastOp' = "verify"
  /\ lastVerified' = challengeId
  /\ UNCHANGED <<availableSensors, subscribed, listeners, challenge, challengeId,
                 isPaused, timeLeft, score, sessionChallenges, intervals, timeouts,
                 poll, starting, focused, mounted, dialog, saving, device, difficulty,
                 settings, history, alert, sensitivityMultiplier, firedFor, presses>>

NextGenerate == EngineGenerate \/ VerifyGenerated \/ EngineReset

SpecGenerate == InitGenerate /\ [][NextGenerate]_vars

----------------------------------------------------------------------------
\* Properties of the detectors (checked under SpecEngine).

\* A step of SpecEngine that is a verification of a challenge of type t.
Verifies(t) == lastOp' = "verify" /\ challenge.type = t

\* The magnitude seen by the previous verification, 0 right after a reset.
PrevMagnitude ==
  IF lastOp = "verify" THEN Magnitude(sensorData.accelerometer) ELSE 0

\* A rising edge through 1.2/m between the previous and the current tick.
RisingEdge ==
  /\ PrevMagnitude * sensitivityMultiplier <= 120
  /\ Magnitude(sensorData'.accelerometer) * sensitivityMultiplier > 120

\* The step counts after each of a sequence of magnitudes (z-axis readings)
\* is fed to verifyRunChallenge in turn, from reset state.
RECURSIVE RunCounts(_, _, _, _)
RunCounts(D, ch, m, mags) ==
  IF mags = <<>> THEN <<>>
  ELSE LET out == verifyRunChallenge(D, ch, Vec(0, 0, Head(mags)), AdjustThresholds(m))
       IN <<out.d.stepCount>> \o RunCounts(out.d, ch, m, Tail(mags))

ThreeSteps == Descriptor(RUN, CHALLENGES[RUN][1])

\* C6 as stated: on each RUN tick the step counter increases by exactly 1, with
\* one step-detected notification, iff the previous magnitude was <= threshold
\* and the current one is > threshold, and otherwise is unchanged.
C6_StepCounterAsStated ==
  [][Verifies(RUN) =>
       /\ RisingEdge => stepCount' = stepCount + 1 /\ notified' = <<"stepDetected">>
       /\ ~RisingEdge => stepCount' = stepCount /\ notified' = <<>>]_vars

\* C6 amended: one notification iff rising edge; the counter is unchanged
\* without a rising edge, and with one it becomes counter + 1, except that the
\* tick on which counter + 1 reaches challenge.count leaves it reset to 0.
\* The magnitudes 0, 1.5, 0.8, 1.6, 0.9 at threshold 1.2 count 0, 1, 1, 2, 2.
C6_RisingEdgeCounting ==
  /\ RunCounts(ResetTracking(DetectorState), ThreeSteps, 10, <<0, 15, 8, 16, 9>>)
       = <<0, 1, 1, 2, 2>>
  /\ [][Verifies(RUN) =>
          /\ RisingEdge =>
               /\ notified' = <<"stepDetected">>
               /\ stepCount' = IF stepCount + 1 >= challenge.count THEN 0
                               ELSE stepCount + 1
          /\ ~RisingEdge => stepCount' = stepCount /\ notified' = <<>>]_vars

\* A sustained peak: the second consecutive tick above the threshold found the
\* counter at 2 and left it there.
C6_Witness ==
  /\ lastOp = "verify" /\ challenge.type = RUN /\ challenge.count = 5
  /\ stepCount = 2 /\ notified = <<>>
  /\ lastAccelMagnitude * sensitivityMultiplier > 120

\* C7: a RUN tick returns completed iff the counter after the tick's update
\* (counter, plus 1 on a rising edge) is >= challenge.count, then with
\* performance min(1, counter/count); otherwise completed is false and the
\* performance is counter/count, below 1.
C7_RunCompletion ==
  [][Verifies(RUN) =>
       LET counter == IF RisingEdge THEN stepCount + 1 ELSE stepCount
           p == result'.performance
       IN /\ result'.completed <=> counter >= challenge.count
          /\ result'.completed =>
               IF counter > challenge.count THEN p.num = p.den
               ELSE p.num * challenge.count = counter * p.den
          /\ ~result'.completed =>
               /\ p.num * challenge.count = counter * p.den
               /\ p.num < p.den]_vars

C7_Witness ==
  /\ lastOp = "verify" /\ challenge.type = RUN /\ result.completed
  /\ result.performance.num = result.performance.den
  /\ notified = <<"stepDetected">>

\* The axis value the specification selects: +z, -z or |z|.
SelectedAxis ==
  LET z == sensorData'.gyroscope.z
  IN IF challenge.direction = 1 THEN z
     ELSE IF challenge.direction = -1 THEN -z ELSE Abs(z)

\* C5 as stated: a ROTATE tick adds to the accumulated rotation only when the
\* selected signed axis value exceeds the speed threshold 0.5/m; rotation the
\* wrong way adds nothing.
C5_WrongWayAddsNothing ==
  [][Verifies(ROTATE) /\ ~(SelectedAxis * sensitivityMultiplier > 50)
       => rotationProgress' = rotationProgress]_vars

\* C8 as stated: on a ROTATE tick that does not complete, the accumulated
\* rotation grows by |z| * (180/pi)/10 when the selected axis value exceeds the
\* speed threshold and by 0 on any other tick.
C8_RotateAccumulation ==
  [][Verifies(ROTATE) /\ ~result'.completed =>
       rotationProgress' = rotationProgress +
         (IF SelectedAxis * sensitivityMultiplier > 50
            THEN Abs(sensorData'.gyroscope.z) * MILLIDEG_PER_TENTH ELSE 0)]_vars

\* The rotation accumulated by the end of a ROTATE tick's update, before the
\* completion test: the sample counts when |z| exceeds the speed threshold.
Accumulated ==
  LET z == Abs(sensorData'.gyroscope.z)
  IN rotationProgress +
       (IF z * sensitivityMultiplier > 50 THEN z * MILLIDEG_PER_TENTH ELSE 0)

\* C9: a ROTATE tick returns completed iff the accumulated rotation has reached
\* challenge.degrees, which no earlier tick's had; then the performance is
\* min(1, degrees/accumulated), in (0, 1], and the accumulated rotation is set
\* back to 0; otherwise the performance is accumulated/degrees, below 1.
C9_RotateCompletion ==
  [][Verifies(ROTATE) =>
       LET goal == challenge.degrees * 1000
           p == result'.performance
       IN /\ rotationProgress < goal
          /\ result'.completed <=> Accumulated >= goal
          /\ result'.completed =>
               /\ rotationProgress' = 0
               /\ p = Perf(goal, Accumulated)
               /\ 0 < p.num /\ p.num <= p.den
          /\ ~result'.completed =>
               /\ rotationProgress' = Accumulated
               /\ p = Perf(Accumulated, goal)
               /\ p.num < p.den]_vars

\* A completion that overshot the goal: performance strictly below 1.
C9_Witness ==
  /\ lastOp = "verify" /\ challenge.type = ROTATE /\ result.completed
  /\ rotationProgress = 0
  /\ result.performance.num < result.performance.den

\* C10: the classification is forward if x > thr, else backward if x < -thr,
\* else right if y > thr, else left if y < -thr, else none (thr = 0.5/m).
C10_TiltClassification ==
  (lastOp = "verify" /\ challenge.type = TILT) =>
    LET x == sensorData.gyroscope.x * sensitivityMultiplier
        y == sensorData.gyroscope.y * sensitivityMultiplier
    IN /\ x > 50 => tiltDetected = "forward"
       /\ x < -50 => tiltDetected = "backward"
       /\ (x <= 50 /\ x >= -50 /\ y > 50) => tiltDetected = "right"
       /\ (x <= 50 /\ x >= -50 /\ y < -50) => tiltDetected = "left"
       /\ (x <= 50 /\ x >= -50 /\ y <= 50 /\ y >= -50) => tiltDetected = ""

\* x above the threshold and y below its negative: classified forward.
C10_Witness ==
  /\ lastOp = "verify" /\ challenge.type = TILT
  /\ sensorData.gyroscope.x * sensitivityMultiplier > 50
  /\ sensorData.gyroscope.y * sensitivityMultiplier < -50
  /\ tiltDetected = "forward"

\* The transition buffer holds no 'none' entry and no two adjacent equal
\* entries.
Debounced(states) ==
  /\ \A i \in 1..Len(states) : states[i] # ""
  /\ \A i \in 1..(Len(states) - 1) : states[i] # states[i + 1]

\* C11: a TILT tick appends the classified direction to the transition buffer
\* and emits one tilt-detected notification iff the classification is not
\* none and differs from the last recorded entry (or the buffer is empty);
\* otherwise it appends nothing and emits nothing.  Hence the buffer never
\* holds a 'none' entry nor two adjacent equal entries.
C11_TiltDebouncing ==
  /\ []Debounced(tiltStates)
  /\ [][Verifies(TILT) =>
          LET tilt == tiltDetected'
              isNew == /\ tilt # ""
                       /\ (tiltStates = <<>> \/ tiltStates[Len(tiltStates)] # tilt)
          IN /\ notified' = IF isNew THEN <<"tiltDetected">> ELSE <<>>
             /\ \/ result'.completed
                \/ tiltStates' = IF isNew THEN Append(tiltStates, tilt)
                                 ELSE tiltStates]_vars

\* A tick has appended a direction after a different one, with its
\* notification.
C11_Witness ==
  /\ lastOp = "verify" /\ challenge.type = TILT
  /\ notified = <<"tiltDetected">>
  /\ Len(tiltStates) >= 2
  /\ tiltStates[Len(tiltStates)] = tiltDetected

\* sub is a subsequence of seq: its entries occur in seq in order, gaps allowed.
IsSubsequence(sub, seq) ==
  \E f \in [1..Len(sub) -> 1..Len(seq)] :
    /\ \A k \in 1..Len(sub) : seq[f[k]] = sub[k]
    /\ \A k \in 1..(Len(sub) - 1) : f[k] < f[k + 1]

\* The transition buffer after the recording step of the tick that classified
\* tilt.
Recorded(states, tilt) ==
  IF tilt # "" /\ (states = <<>> \/ states[Len(states)] # tilt)
    THEN Append(states, tilt) ELSE states

\* The gyroscope reading (at sensitivity 1.0) that is classified as tilt.
TiltSample(tilt) ==
  CASE tilt = "forward" -> Vec(10, 0, 0)
    [] tilt = "backward" -> Vec(-10, 0, 0)
    [] tilt = "right" -> Vec(0, 10, 0)
    [] tilt = "left" -> Vec(0, -10, 0)
    [] OTHER -> ZeroVec

\* The verdicts (completed or not) of verifyTiltChallenge as a sequence of
\* tilts is fed to it in turn.
RECURSIVE TiltVerdicts(_, _, _)
TiltVerdicts(D, ch, tilts) ==
  IF tilts = <<>> THEN <<>>
  ELSE LET out == verifyTiltChallenge(D, ch, TiltSample(Head(tilts)),
                                      AdjustThresholds(10), ClockStep)
       IN <<out.result.completed>> \o TiltVerdicts(out.d, ch, Tail(tilts))

LeftForwardRight ==
  [type |-> TILT, instruction |-> "Tilt device left, forward, then right",
   directions |-> <<"left", "forward", "right">>, duration |-> 0]

\* C12: a TILT tick returns completed iff, after the tick's recording step,
\* challenge.directions is a subsequence (in order, gaps allowed) of the
\* transition buffer.  Required [left, forward, right] is completed by the
\* transitions left, backward, forward, left, right and by no proper prefix.
C12_TiltSequenceMode ==
  /\ TiltVerdicts(ResetTracking(DetectorState), LeftForwardRight,
                  <<"left", "backward", "forward", "left", "right">>)
       = <<FALSE, FALSE, FALSE, FALSE, TRUE>>
  /\ [][Verifies(TILT) =>
          (result'.completed <=>
             IsSubsequence(challenge.directions,
                           Recorded(tiltStates, tiltDetected')))]_vars

\* 'left then right' completed on the tick that classified right.
C12_Witness ==
  /\ lastOp = "verify" /\ challenge.type = TILT /\ challenge.duration = 0
  /\ challenge.directions = <<"left", "right">>
  /\ result.completed /\ tiltStates = <<>> /\ tiltDetected = "right"
  /\ directionMatchDuration = 0

\* The number of required directions matched so far: the length of the longest
\* prefix of directions that is a subsequence of the buffer.
MatchedCount(directions, states) ==
  CHOOSE k \in 0..Len(directions) :
    /\ IsSubsequence(SubSeq(directions, 1, k), states)
    /\ \A j \in (k + 1)..Len(directions) :
         ~IsSubsequence(SubSeq(directions, 1, j), states)

\* C13 as stated: on every non-completing tick of a sequence-mode TILT
\* challenge the reported performance is (required directions matched so far
\* as a subsequence) / (required directions), so that a transition matching
\* no required direction does not raise it.
C13_TiltProgress ==
  [][(Verifies(TILT) /\ challenge.duration = 0 /\ ~result'.completed) =>
       LET p == result'.performance
           matched == MatchedCount(challenge.directions,
                                   Recorded(tiltStates, tiltDetected'))
       IN p.num * Len(challenge.directions) = matched * p.den]_vars

\* C14 as stated: after every tick on which verifyTiltChallenge returns
\* completed, by the hold path or the sequence path, the transition buffer is
\* empty and the hold timer lastDirectionMatchTime is 0.
C14_TiltCompletionClears ==
  [][(Verifies(TILT) /\ result'.completed) =>
       tiltStates' = <<>> /\ lastDirectionMatchTime' = 0]_vars

\* The largest sensitivity multiplier the adapter is evaluated at (tenths).
MaxMultiplier == 20

\* The rational q (tenths for the first three thresholds, degrees for the
\* tolerance) equals num/den.
Equals(q, num, den) == q.d > 0 /\ q.n * den = num * q.d

\* C19: for every sensitivity multiplier m > 0 the adjusted thresholds are
\* STEP_MAGNITUDE = 1.2/m, ROTATION_SPEED = 0.5/m, TILT_ANGLE = 0.5/m and
\* DIRECTION_TOLERANCE = 20*m (m in tenths below), and the base table keeps
\* its values 1.2, 0.5, 0.5, 20.  The detectors act on those thresholds: a TILT
\* tick classifies a direction iff |x| or |y| exceeds 0.5/m, and a RUN tick
\* notifies a step only for a magnitude above 1.2/m.
C19_ThresholdAdapter ==
  /\ THRESHOLDS = [STEP_MAGNITUDE |-> 12, ROTATION_SPEED |-> 5, TILT_ANGLE |-> 5,
                   DIRECTION_TOLERANCE |-> 20]
  /\ \A m \in 1..MaxMultiplier :
       LET adjusted == AdjustThresholds(m)
       IN /\ Equals(adjusted.STEP_MAGNITUDE, 12 * 10, m)
          /\ Equals(adjusted.ROTATION_SPEED, 5 * 10, m)
          /\ Equals(adjusted.TILT_ANGLE, 5 * 10, m)
          /\ Equals(adjusted.DIRECTION_TOLERANCE, 20 * m, 10)
  /\ (lastOp = "verify" /\ challenge.type = TILT) =>
       LET x == Abs(sensorData.gyroscope.x) * sensitivityMultiplier
           y == Abs(sensorData.gyroscope.y) * sensitivityMultiplier
       IN tiltDetected # "" <=> (x > 50 \/ y > 50)
  /\ (lastOp = "verify" /\ challenge.type = RUN) =>
       (notified = <<"stepDetected">> =>
          Magnitude(sensorData.accelerometer) * sensitivityMultiplier > 120)

\* At hard difficulty a 1.2 reading has counted as a step (1.2 > 1.2/1.3); at
\* medium it would not.
C19_Witness ==
  /\ lastOp = "verify" /\ challenge.type = RUN /\ sensitivityMultiplier = 13
  /\ Magnitude(sensorData.accelerometer) = 12
  /\ notified = <<"stepDetected">>

\* C21: for a challenge whose type is none of RUN, ROTATE, TILT, DIRECTION the
\* verification returns {completed: true, performance: 0.7} iff the
\* accelerometer magnitude is strictly greater than 2.5, and {completed:
\* false, performance: 0} otherwise, whatever the sensitivity multiplier, and
\* leaves every field of the detector state unchanged.
C21_FallbackDispatch ==
  [][(lastOp' = "verify" /\ challenge.type \notin {RUN, ROTATE, TILT, DIRECTION}) =>
       LET a == sensorData'.accelerometer
           squares == a.x * a.x + a.y * a.y + a.z * a.z
           p == result'.performance
       IN /\ result'.completed <=> squares > 625
          /\ result'.completed => 10 * p.num = 7 * p.den
          /\ ~result'.completed => p.num = 0
          /\ p.den > 0
          /\ notified' = <<>>
          /\ UNCHANGED detVars]_vars

\* The fallback completed at easy difficulty (thresholds divided by 0.7) on a
\* reading of magnitude 3.0.
C21_Witness ==
  /\ lastOp = "verify" /\ challenge.type = BASIC /\ sensitivityMultiplier = 7
  /\ result = [completed |-> TRUE, performance |-> Perf(7, 10)]
  /\ sensorData.accelerometer = Vec(0, 0, 30)

\* C25: resetChallengeTracking, from any reachable detector state, sets
\* lastAccelMagnitude = 0, stepCount = 0, rotationProgress = 0, tiltStates =
\* [], directionMatched = false, lastDirectionMatchTime = 0 and
\* directionMatchDuration = 0; applied twice it gives the same state as
\* applied once.
C25_ResetTracking ==
  /\ [](ResetTracking(ResetTracking(DetectorState)) = ResetTracking(DetectorState))
  /\ [][lastOp' = "reset" =>
          /\ lastAccelMagnitude' = 0 /\ stepCount' = 0 /\ rotationProgress' = 0
          /\ tiltStates' = <<>> /\ directionMatched' = FALSE
          /\ lastDirectionMatchTime' = 0 /\ directionMatchDuration' = 0
          /\ lastOp = "reset" => UNCHANGED detVars]_vars

\* A reset right after a direction had been matched and its hold timer
\* started.
C25_Witness ==
  /\ lastOp = "reset" /\ challenge.type = DIRECTION
  /\ notified = <<>> /\ ~result.completed
  /\ result.performance.num = result.performance.den
  /\ ~directionMatched /\ lastDirectionMatchTime = 0

\* C26: for every catalog challenge and the BASIC fallback, every sensitivity
\* in {0.7, 1.0, 1.3} and every sequence of samples from reset state, every
\* VerificationResult returned has its performance in [0, 1].
C26_PerformanceRange ==
  lastOp = "verify" =>
    /\ result.performance.den > 0
    /\ result.performance.num >= 0
    /\ result.performance.num <= result.performance.den

\* A tilt tick that did not complete although as many transitions as required
\* directions were recorded: its performance is held at 1.
C26_Witness ==
  /\ lastOp = "verify" /\ challenge.type = TILT /\ ~result.completed
  /\ Len(tiltStates) > Len(challenge.directions)
  /\ result.performance.num = result.performance.den

----------------------------------------------------------------------------
\* Properties of the DIRECTION detector (checked under SpecDirection).

\* The compass heading of a magnetometer reading, in [0, 360).
Heading(magnetometer) == (Atan2Deg(magnetometer.y, magnetometer.x) + 360) % 360

CompassAngle ==
  [N |-> 0, NE |-> 45, E |-> 90, SE |-> 135, S |-> 180, SW |-> 225, W |-> 270,
   NW |-> 315]

\* The shorter arc between two angles of [0, 360).
ShorterArc(a, b) ==
  LET one == (a - b + 360) % 360
      other == (b - a + 360) % 360
  IN IF one <= other THEN one ELSE other

\* The shorter arc between the reading of the tick being taken and the target.
TickDiff == ShorterArc(Heading(sensorData'.magnetometer), CompassAngle[challenge.direction])

\* Ten times the tolerance in force: the template's own when it sets one, and
\* 20 * m otherwise.
TickTolerance10 ==
  IF challenge.tolerance # 0 THEN challenge.tolerance * 10
  ELSE 20 * sensitivityMultiplier

TickMatched == TickDiff * 10 <= TickTolerance10

FaceNorth == Descriptor(DIRECTION, CHALLENGES[DIRECTION][1])

\* C15: the heading atan2(y, x) is normalized into [0, 360); the target is the
\* compass label's angle; diff is the shorter arc between them, within
\* [0, 180]; the tick is matched iff diff <= tolerance, the template's own
\* tolerance when it sets one and the adjusted default 20 * m otherwise.
\* Heading 350 with target N and tolerance 20 is matched with diff 10.
C15_DirectionMatching ==
  /\ \A label \in DOMAIN CompassAngle :
       getHeadingFromDirection(label) = CompassAngle[label]
  /\ FaceNorth.direction = "N" /\ FaceNorth.tolerance = 20
  /\ HeadingDiff(FaceNorth, Vec(567, -100, 0)) = 10
  /\ [][Verifies(DIRECTION) =>
          /\ Heading(sensorData'.magnetometer) \in 0..359
          /\ HeadingDiff(challenge, sensorData'.magnetometer) = TickDiff
          /\ TickDiff \in 0..180
          /\ TickMatched <=> (directionMatched' \/ result'.completed)]_vars

\* Heading 350 against target N, tolerance 20: matched.
C15_Witness ==
  /\ lastOp = "verify" /\ challenge = FaceNorth
  /\ sensorData.magnetometer = Vec(567, -100, 0)
  /\ directionMatched

\* C16: a DIRECTION tick completes only if it is matched and at least 2 s of
\* wall-clock time after the first tick of the unbroken run of matched ticks it
\* belongs to, and exactly 2.0 s suffices; the first matched tick of a run
\* starts the hold timer, emits the one direction-matched notification of the
\* run and does not complete; an unmatched tick clears the matched flag and
\* the hold timer, emits nothing and does not complete.
C16_DirectionSustainedHold ==
  /\ [](directionMatched => lastDirectionMatchTime \in 1..now)
  /\ [][Verifies(DIRECTION) =>
          /\ ~TickMatched =>
               /\ ~result'.completed /\ notified' = <<>>
               /\ directionMatched' = FALSE /\ lastDirectionMatchTime' = 0
          /\ (TickMatched /\ ~directionMatched) =>
               /\ ~result'.completed /\ notified' = <<"directionMatched">>
               /\ directionMatched' = TRUE /\ lastDirectionMatchTime' = now'
          /\ (TickMatched /\ directionMatched) =>
               /\ notified' = <<>>
               /\ result'.completed <=> now' - lastDirectionMatchTime >= 2000
               /\ ~result'.completed =>
                    UNCHANGED <<directionMatched, lastDirectionMatchTime>>]_vars

\* Completed exactly 2.0 s after the earliest possible first matched tick.
C16_Witness ==
  /\ lastOp = "verify" /\ challenge.type = DIRECTION /\ result.completed
  /\ now = ClockStep + 2000
  /\ ~directionMatched /\ lastDirectionMatchTime = 0

\* C17: a non-completing DIRECTION tick reports max(0, 1 - diff/180); the
\* completing tick reports 1 - diff/tolerance from that tick's diff, which
\* lies in [0, 1].  Heading 10, target N, tolerance 20 gives 0.5.
C17_DirectionPerformance ==
  /\ LET held == [ResetTracking(DetectorState) EXCEPT
                    !.directionMatched = TRUE, !.lastDirectionMatchTime = ClockStep]
         out == verifyDirectionChallenge(held, FaceNorth, Vec(567, 100, 0),
                                         AdjustThresholds(10), ClockStep + 2000)
     IN /\ out.result.completed
        /\ 2 * out.result.performance.num = out.result.performance.den
  /\ [][Verifies(DIRECTION) =>
          LET p == result'.performance
          IN /\ p.den > 0 /\ p.num >= 0 /\ p.num <= p.den
             /\ ~result'.completed =>
                  p.num * 180 = (IF TickDiff >= 180 THEN 0 ELSE 180 - TickDiff) * p.den
             /\ result'.completed =>
                  p.num * TickTolerance10 = (TickTolerance10 - TickDiff * 10) * p.den]_vars

\* Completed at heading 10 against N, tolerance 20: performance 0.5.
C17_Witness ==
  /\ lastOp = "verify" /\ challenge = FaceNorth /\ result.completed
  /\ sensorData.magnetometer = Vec(567, 100, 0)
  /\ 2 * result.performance.num = result.performance.den

----------------------------------------------------------------------------
\* Properties of the null guard (checked under SpecNull).

\* C20: verifyChallengeCompletion called with a null or undefined challenge
\* or sample returns {completed: false, performance: 0}, emits no notification
\* and leaves every field of the detector state unchanged.
C20_NullTolerance ==
  [][lastOp' = "verifyNull" =>
       /\ result'.completed = FALSE
       /\ result'.performance.num = 0 /\ result'.performance.den > 0
       /\ notified' = <<>>
       /\ UNCHANGED detVars]_vars

\* A call with a missing argument in the middle of a challenge: the tracking
\* state it found is still there.
C20_Witness ==
  /\ lastOp = "verifyNull"
  /\ result = [completed |-> FALSE, performance |-> Perf(0, 1)]
  /\ \/ stepCount > 0
     \/ rotationProgress > 0
     \/ tiltStates # <<>>
     \/ directionMatched

----------------------------------------------------------------------------
\* Properties of generation (checked under SpecGenerate).

\* The sensor family a challenge type needs.
Needs ==
  [RUN |-> "accelerometer", ROTATE |-> "gyroscope", TILT |-> "gyroscope",
   DIRECTION |-> "magnetometer"]

\* descriptor is the i-th template of type t with the type added.
IsTemplate(descriptor, t, i) ==
  LET template == CHALLENGES[t][i]
  IN /\ DOMAIN descriptor = DOMAIN template \cup {"type"}
     /\ descriptor.type = t
     /\ \A f \in DOMAIN template : descriptor[f] = template[f]

\* C22: generateChallenge returns RUN only if the accelerometer is available,
\* ROTATE or TILT only if the gyroscope is, DIRECTION only if the magnetometer
\* is (so with the accelerometer alone never ROTATE, TILT or DIRECTION); the
\* descriptor is one template of the chosen type's catalog list with the type
\* added, and every template of every eligible type is a possible result.
C22_GenerationEligibility ==
  /\ [](\A t \in DOMAIN Needs :
          availableSensors[Needs[t]] =>
            \A i \in 1..Len(CHALLENGES[t]) :
              \E descriptor \in generateChallenge(availableSensors) :
                IsTemplate(descriptor, t, i))
  /\ [][lastOp' = "generate" =>
          \/ /\ challenge'.type \in DOMAIN Needs
             /\ availableSensors[Needs[challenge'.type]]
             /\ \E i \in 1..Len(CHALLENGES[challenge'.type]) :
                  IsTemplate(challenge', challenge'.type, i)
          \/ /\ challenge'.type = BASIC
             /\ \A f \in DOMAIN availableSensors : ~availableSensors[f]]_vars

\* With only the accelerometer available a RUN challenge was generated.
C22_Witness ==
  /\ lastOp = "generate"
  /\ availableSensors = Sensors(TRUE, FALSE, FALSE)
  /\ challenge.type = RUN /\ challenge.count = 5

\* C23: generateChallenge returns the fixed BASIC 'Shake your device' template
\* iff no sensor family is available; with at least one family available it
\* never returns BASIC.
C23_GenerationFallback ==
  [][lastOp' = "generate" =>
       LET none == /\ ~availableSensors.accelerometer
                   /\ ~availableSensors.gyroscope
                   /\ ~availableSensors.magnetometer
       IN /\ none <=> challenge'.type = BASIC
          /\ none =>
               challenge' =
                 [type |-> "BASIC", instruction |-> "Shake your device",
                  hint |-> "No advanced sensors detected, just shake the device"]]_vars

\* Without any sensor the fallback was generated.
C23_Witness ==
  /\ lastOp = "generate" /\ availableSensors = NoSensors
  /\ challenge.type = BASIC /\ challenge.instruction = "Shake your device"

\* C24: generateChallenge changes no field of the detector state, no sensor
\* availability flag and no cached sensor value, and the catalog keeps its
\* templates: each is still what a generation of its type can return.
C24_GenerationNoSideEffect ==
  [][lastOp' = "generate" =>
       /\ UNCHANGED <<lastAccelMagnitude, stepCount, rotationProgress, tiltStates,
                      directionMatched, lastDirectionMatchTime,
                      directionMatchDuration>>
       /\ UNCHANGED <<availableSensors, subscribed>>
       /\ UNCHANGED <<currentAccelerometer, currentGyroscope, currentMagnetometer>>
       /\ challenge'.type \in DOMAIN Needs =>
            \A i \in 1..Len(CHALLENGES[challenge'.type]) :
              \E descriptor \in generateChallenge(availableSensors') :
                IsTemplate(descriptor, challenge'.type, i)]_vars

\* A challenge was generated in the middle of another: the tracking state and
\* the cached reading of the earlier one are still there.
C24_Witness ==
  /\ lastOp = "generate" /\ challengeId = 2
  /\ \/ stepCount > 0
     \/ rotationProgress > 0
     \/ tiltStates # <<>>
     \/ directionMatched
  /\ getSensorData # ZeroData

\* C4 as stated: a TILT challenge that sets `duration` is not completed before
\* the classification has equalled directions[0] on every tick of an interval
\* of at least `duration` seconds (the hold timer, started on the first such
\* tick and cleared by any other, has run that long).
C4_HoldBeforeCompletion ==
  [][(Verifies(TILT) /\ challenge.duration # 0 /\ result'.completed) =>
       /\ tiltDetected' = challenge.directions[1]
       /\ lastDirectionMatchTime # 0
       /\ now' - lastDirectionMatchTime >= challenge.duration * 1000]_vars

----------------------------------------------------------------------------
\* Properties of the screen (checked under Spec).

\* C1 (reset barrier): the first verification tick of a challenge (the
\* challenge verified by the previous tick, if any, was another one) starts
\* from a detector state in which every field has its reset value, however the
\* previous challenge ended and however the timers and presses interleave.
C1_ResetBarrier ==
  [][(lastOp' = "verify" /\ lastVerified # challengeId)
       => /\ lastAccelMagnitude = 0 /\ stepCount = 0 /\ rotationProgress = 0
          /\ tiltStates = <<>> /\ directionMatched = FALSE
          /\ lastDirectionMatchTime = 0 /\ directionMatchDuration = 0]_vars

\* The second challenge is running and about to be verified for the first
\* time, after a first challenge that was verified and then ran out of time.
C1_Witness ==
  /\ poll.active /\ challengeId = 2 /\ lastVerified = 1
  /\ Len(sessionChallenges) >= 1
  /\ sessionChallenges[1].id = 1
  /\ ~sessionChallenges[1].completed /\ ~sessionChallenges[1].skipped

\* C2 (a challenge ends exactly once): no two outcomes of the session list
\* belong to the same challenge.
C2_EndsOnce ==
  \A i, j \in 1..Len(sessionChallenges) :
    i # j => sessionChallenges[i].id # sessionChallenges[j].id

\* C3 (cancellation): a timer (countdown interval, completion poll,
\* next-challenge timeout) fires only while the screen has focus and only for
\* the challenge that is current when it fires.
C3_NoOrphanTimer ==
  [][firedFor' # 0 => (focused /\ firedFor' = challengeId)]_vars

\* C18 as stated (checked under SpecDifficulty): on every verification tick of
\* the running app the sensitivity multiplier used to adjust the thresholds is
\* the persisted difficulty sensitivity (0.7 easy, 1.0 medium, 1.3 hard).
C18_DifficultyApplied ==
  [][lastOp' = "verify" => sensitivityMultiplier' = settings.sensitivity]_vars

\* C27: during a session every change of the session list appends exactly one
\* outcome at its end (completed, failed or skipped) and leaves the entries
\* already there as they were, in their order; the list is emptied only by
\* starting a new session.
C27_SessionAppendOnly ==
  [][sessionChallenges' # sessionChallenges =>
       \/ lastOp' = "focus" /\ sessionChallenges' = <<>>
       \/ /\ lastOp' \in {"verify", "countdown", "skip"}
          /\ Len(sessionChallenges') = Len(sessionChallenges) + 1
          /\ \A i \in 1..Len(sessionChallenges) :
               sessionChallenges'[i] = sessionChallenges[i]
          /\ LET outcome == sessionChallenges'[Len(sessionChallenges')]
             IN \/ lastOp' = "verify" /\ outcome.completed /\ ~outcome.skipped
                \/ lastOp' = "countdown" /\ ~outcome.completed /\ ~outcome.skipped
                \/ lastOp' = "skip" /\ ~outcome.completed /\ outcome.skipped]_vars

\* A skipped outcome followed by a completed one.
C27_Witness ==
  /\ Len(sessionChallenges) = 2
  /\ sessionChallenges[1].skipped
  /\ sessionChallenges[2].completed

----------------------------------------------------------------------------
\* C33: a focus received while the session list is non-empty leaves the
\* score, the list and the challenge on screen as they are; a focus received
\* with an empty list starts a new session (score 0, empty list, a newly
\* generated challenge).
C33_FocusKeepsSession ==
  [][lastOp' = "focus" =>
       IF Len(sessionChallenges) > 0
         THEN UNCHANGED <<score, sessionChallenges, challenge, challengeId>>
         ELSE /\ score' = 0 /\ sessionChallenges' = <<>>
              /\ challengeId' = challengeId + 1]_vars

----------------------------------------------------------------------------
\* C36: whenever a challenge is generated, the availability flags that
\* generateChallenge consults equal the device's real sensor availability,
\* the first challenge of a session included; so BASIC is generated only on a
\* device without sensors.
C36_AvailabilityKnown ==
  [][challengeId' # challengeId =>
       /\ availableSensors = device
       /\ challenge'.type = BASIC => device = NoSensors]_vars

----------------------------------------------------------------------------

\* C38: every outcome recorded as completed has a score above 0 and every
\* other outcome has score 0, so the history view's count of completed
\* challenges (score > 0) is the number of outcomes whose completed flag is
\* set.
C38_HistoryAgreesOnCompletion ==
  /\ \A i \in 1..Len(sessionChallenges) :
       IF sessionChallenges[i].completed
         THEN sessionChallenges[i].score > 0
         ELSE sessionChallenges[i].score = 0
  /\ CompletedChallenges(sessionChallenges) =
       Cardinality({i \in 1..Len(sessionChallenges) :
                      sessionChallenges[i].completed})

----------------------------------------------------------------------------

\* Properties of the I/O failures (checked under SpecSession).

\* C28: when startSensorServices fails as a challenge is started, or
\* saveChallenge fails as the session is ended, the failure is caught and an
\* alert is shown, and across the call and its failure the session list, the
\* session score and every field of the detector state stay as they were.
C28_FailureContainment ==
  [][/\ lastOp' \in {"startPress", "startFailed", "endSession", "saveFailed"} =>
          UNCHANGED <<sessionChallenges, score, lastAccelMagnitude, stepCount,
                      rotationProgress, tiltStates, directionMatched,
                      lastDirectionMatchTime, directionMatchDuration>>
     /\ lastOp' = "startFailed" => alert' = "Failed to access device sensors"
     /\ lastOp' = "saveFailed" => alert' = "Failed to save session results"]_vars

\* The save of a session with an outcome in it has failed: the alert is up
\* and the list and the screen are still there.
C28_Witness ==
  /\ lastOp = "saveFailed" /\ alert = "Failed to save session results"
  /\ Len(sessionChallenges) > 0 /\ mounted /\ focused /\ history = <<>>

\* C31: when End is confirmed with a non-empty session list, one
\* SessionRecord goes to the store and it holds every outcome recorded up to
\* then (one recorded while the confirmation was open included), with
\* totalChallenges the number of outcomes and score the session score; the
\* history grows by that one record when the save succeeds, and changes on no
\* other step; with an empty list nothing is persisted.
C31_SessionEnd ==
  [][/\ lastOp' = "endSession" =>
          IF Len(sessionChallenges) > 0
            THEN /\ Len(saving') = Len(saving) + 1
                 /\ LET record == saving'[Len(saving')]
                    IN /\ record.challenges = sessionChallenges
                       /\ record.totalChallenges = Len(sessionChallenges)
                       /\ record.score = score
            ELSE saving' = saving
     /\ lastOp' = "saved" => history' = Append(history, Head(saving))
     /\ history' # history => lastOp' = "saved"]_vars

----------------------------------------------------------------------------
\* Properties of the sensor listeners (checked under SpecSession).

\* C35: at any time at most one listener per sensor family is registered;
\* when stopSensorServices has run (blur, end of session, leaving the screen)
\* no listener is registered and getSensorStatus reports the three families
\* inactive; and stopping when nothing is subscribed changes nothing.
C35_SensorListeners ==
  /\ [](\A f \in Families : listeners[f] <= 1)
  /\ [][/\ lastOp' \in {"blur", "endSession", "saved"} =>
             /\ \A f \in Families : listeners'[f] = 0
             /\ LET status == getSensorStatus(availableSensors', subscribed')
                IN /\ ~status.accelerometerActive /\ ~status.gyroscopeActive
                   /\ ~status.magnetometerActive
        /\ (lastOp' \in {"blur", "endSession"} /\ subscribed = NoSensors) =>
             UNCHANGED <<subscribed, listeners>>]_vars

----------------------------------------------------------------------------

\* Properties of the result statistics (checked under SpecSession).

\* The session lists of a state: the one on screen and the ones handed to
\* saveChallenge and to the result screen.
SessionLists ==
  {sessionChallenges}
    \cup {saving[i].challenges : i \in 1..Len(saving)}
    \cup {history[i].challenges : i \in 1..Len(history)}

\* C37: for every session list the screen produces, no outcome is both
\* completed and skipped, and the result screen's counts of completed, failed
\* and skipped outcomes add up to the total.
C37_StatsPartition ==
  \A list \in SessionLists :
    /\ \A i \in 1..Len(list) : ~(list[i].completed /\ list[i].skipped)
    /\ LET stats == Stats(list)
       IN /\ stats.total = Len(list)
          /\ stats.completed + stats.failed + stats.skipped = stats.total

\* A session with a failed and a completed outcome has been saved and handed
\* to the result screen.
C37_Witness ==
  /\ Len(history) = 1
  /\ Stats(history[1].challenges).completed = 1
  /\ Stats(history[1].challenges).failed = 1
  /\ Len(history[1].challenges) = 2

----------------------------------------------------------------------------

\* Properties of pausing (checked under SpecPause).

\* C34: once pauseChallenge has run (Pause pressed, or the blur listener) on a
\* challenge that has no outcome yet, the step that follows, unless it starts
\* the challenge again, skips it or starts a new session, leaves timeLeft, the challenge and the detector
\* state as they are and is no verification tick, whatever start presses came
\* before; and a start continues the same challenge with the same timeLeft
\* and detector state.
C34_PauseFreezes ==
  [][/\ (/\ lastOp \in {"pause", "blur"}
         /\ \A i \in 1..Len(sessionChallenges) :
              sessionChallenges[i].id # challengeId
         /\ lastOp' \notin {"startResume", "skip", "focus"}) =>
          /\ timeLeft' = timeLeft
          /\ lastOp' # "verify"
          /\ UNCHANGED <<challenge, challengeId>>
          /\ UNCHANGED <<lastAccelMagnitude, stepCount, rotationProgress, tiltStates,
                         directionMatched, lastDirectionMatchTime,
                         directionMatchDuration>>
     /\ lastOp' = "startResume" =>
          /\ UNCHANGED <<challenge, challengeId, timeLeft>>
          /\ UNCHANGED <<lastAccelMagnitude, stepCount, rotationProgress, tiltStates,
                         directionMatched, lastDirectionMatchTime,
                         directionMatchDuration>>]_vars

----------------------------------------------------------------------------

\* Properties of the difficulty settings (checked under SpecSettings).

----------------------------------------------------------------------------

\* Properties of the history store (checked under SpecHistory).

\* C32: the stored history never holds more than 50 records; they are in the
\* order they were saved and are the most recently saved ones; a successful
\* saveChallenge puts the new record last and drops only the oldest records;
\* after clearHistory getHistory returns the empty list.
C32_HistoryBound ==
  /\ [](/\ Len(history) <= 50
        /\ \A i \in 1..Len(history) :
             history[i].date = now - (Len(history) - i) * ClockStep)
  /\ [][/\ lastOp' = "saveChallenge" =>
             LET all == Append(history, SessionRecord(now', 0, <<>>))
                 dropped == Len(all) - Len(history')
             IN /\ Len(history') = IF Len(all) > 50 THEN 50 ELSE Len(all)
                /\ history'[Len(history')].date = now'
                /\ \A i \in 1..Len(history') : history'[i] = all[i + dropped]
        /\ lastOp' = "clearHistory" => getHistory(history', TRUE) = <<>>
        /\ lastOp' \in {"saveChallengeFailed", "clearHistoryFailed"} =>
             history' = history]_vars

\* The store is full and a save has just dropped the oldest record.
C32_Witness ==
  /\ lastOp = "saveChallenge" /\ Len(history) = 50
  /\ history[1].date = now - 49 * ClockStep /\ history[1].date > 2 * ClockStep

----------------------------------------------------------------------------
\* Properties of the session score.

RECURSIVE SumScores(_)
SumScores(outcomes) ==
  IF outcomes = <<>> THEN 0
  ELSE Head(outcomes).score + SumScores(Tail(outcomes))

\* k is p * 100 rounded to the nearest integer, halves up.
IsRounded100(k, p) ==
  /\ 2 * p.den * k <= 200 * p.num + p.den
  /\ 200 * p.num + p.den < 2 * p.den * (k + 1)

\* C30: in every reachable state the session score is the sum of the score
\* fields of the outcomes in the session list; a failed or skipped outcome has
\* score 0 and a completed one a score in 0..100, which on the completing
\* tick is the verdict's performance times 100, rounded.
C30_ScoreConsistency ==
  /\ [](/\ score = SumScores(sessionChallenges)
        /\ \A i \in 1..Len(sessionChallenges) :
             IF sessionChallenges[i].completed
               THEN sessionChallenges[i].score \in 0..100
               ELSE sessionChallenges[i].score = 0)
  /\ [][(lastOp' = "verify" /\ result'.completed) =>
          /\ Len(sessionChallenges') = Len(sessionChallenges) + 1
          /\ LET o == sessionChallenges'[Len(sessionChallenges')]
             IN /\ o.completed
                /\ IsRounded100(o.score, result'.performance)
                /\ score' = score + o.score]_vars

\* A session holding a completed outcome with points and a second completed
\* outcome: the score is the sum of the two.
C30_Witness ==
  /\ Len(sessionChallenges) = 2
  /\ sessionChallenges[1].completed /\ sessionChallenges[1].score > 0
  /\ sessionChallenges[2].completed /\ sessionChallenges[2].score > 0
  /\ score = sessionChallenges[1].score + sessionChallenges[2].score

----------------------------------------------------------------------------
\* The countdown as a timer that keeps firing (checked under SpecCountdown).

\* A live setInterval fires again and again until it is cleared: the
\* countdown tick is weakly fair.
SpecCountdown == Init /\ [][Next]_vars /\ WF_vars(CountdownTick)

\* Countdown ticks since the challenge on screen was generated.
Ticked == TimeLimit(challenge) - timeLeft

\* The challenge on screen has been started and is running.
Running(id) ==
  /\ challengeId = id /\ ~IsNull(challenge)
  /\ mounted /\ ~isPaused

Failed(o) == ~o.completed /\ ~o.skipped

EndedAs(id, kind(_)) ==
  \E i \in 1..Len(sessionChallenges) :
    sessionChallenges[i].id = id /\ kind(sessionChallenges[i])

IsCompleted(o) == o.completed
IsSkipped(o) == o.skipped

\* C29: a started, unpaused challenge with time limit T is recorded as failed
\* on the countdown tick that is the T-th since it was generated and on no
\* other step, with timeLeft 0 and score 0 in the outcome; and, the countdown
\* firing fairly, a running challenge is eventually recorded as completed or
\* failed unless it is paused, skipped or abandoned (or the session list has
\* reached its bound).
C29_TimeoutPreemption ==
  /\ [][LET grown == Len(sessionChallenges') = Len(sessionChallenges) + 1
            o == sessionChallenges'[Len(sessionChallenges')]
        IN /\ (grown /\ Failed(o)) =>
                /\ lastOp' = "countdown" /\ Running(challengeId)
                /\ Ticked = TimeLimit(challenge) - 1
                /\ Ticked' = TimeLimit(challenge) /\ timeLeft' = 0
                /\ o.id = challengeId /\ o.timeLeft = 0 /\ o.score = 0
           /\ (/\ lastOp' = "countdown" /\ Running(challengeId)
               /\ Ticked = TimeLimit(challenge) - 1) =>
                grown /\ Failed(o) /\ o.id = challengeId]_vars
  /\ \A id \in 1..MaxChallenges :
       Running(id) ~>
         \/ EndedAs(id, IsCompleted) \/ EndedAs(id, Failed)
         \/ isPaused \/ EndedAs(id, IsSkipped)
         \/ ~focused \/ ~mounted
         \/ Len(sessionChallenges) >= MaxSession

====
